---- MODULE Spec2Model ----
(***************************************************************************)
(* The gains/losses engine of utils/gainsCalculator.js: the tax-lot        *)
(* matcher calculateStockGains (FIFO / LIFO / HIFO lot selection, orphaned *)
(* sells, term classification, wash-sale pass) driven by                   *)
(* calculateGainsLosses, which the App calls on upload and again on every  *)
(* change of the tax strategy.                                             *)
(*                                                                         *)
(* Numbers.  JavaScript numbers are modelled as exact rationals: every     *)
(* money amount is an integer count of 1/Scale dollars, where Scale is the *)
(* least common multiple of the possible share quantities, so that         *)
(* (commission + fees) / quantity and (units / quantity) * totalProceeds   *)
(* are exact.  Floating-point rounding is not modelled.                    *)
(*                                                                         *)
(* Time.  A Date is an integer count of ticks since the epoch, DayTicks    *)
(* ticks to the day, so that a difference of dates need not be a whole     *)
(* number of days and Math.ceil has something to round.                    *)
(*                                                                         *)
(* Arrays are 1-based sequences: index 0 of the source is index 1 here.    *)
(***************************************************************************)
EXTENDS Integers, Sequences, FiniteSets, TLC

\* ------------------------------------------------------------------ bounds
MaxTxns == 3    \* longest input transaction sequence
MaxQty == 2     \* largest share quantity of one BUY or SELL
MaxCalls == 2   \* calls of calculateGainsLosses on one uploaded sequence

\* ------------------------------------------------------- program constants
EpochDate == 0          \* new Date(0)
DayTicks == 2           \* 1000 * 60 * 60 * 24 ms, in ticks
LongTermDays == 365
WashSaleDays == 30

\* ------------------------------------------------------------ input domain
Symbols == {"A", "B"}
Strategies == {"FIFO", "LIFO", "HIFO"}
\* Ticks chosen so that pairs of dates lie exactly 30 days (60), 30.5 days
\* (61), 365 days (730) and 365.5 days (731) apart.
Dates == {1000, 1001, 1061, 1731}
\* price, commission and fees of a row: a priced row with a fee, and a
\* worthless one with a commission
Quotes == {<<2, 0, 1>>, <<0, 1, 0>>}

RECURSIVE Gcd(_, _)
Gcd(a, b) == IF b = 0 THEN a ELSE Gcd(b, a % b)

RECURSIVE LcmUpTo(_)
LcmUpTo(n) == IF n <= 1 THEN 1 ELSE (LcmUpTo(n - 1) * n) \div Gcd(LcmUpTo(n - 1), n)

Scale == LcmUpTo(MaxQty)
Money(x) == x * Scale

TradeTxn(d, s, ty, q, pcf) ==
    [date |-> d, symbol |-> s, transactionType |-> ty, quantity |-> q,
     price |-> pcf[1], commission |-> pcf[2], fees |-> pcf[3],
     isOption |-> FALSE]

\* BUY and SELL rows of the symbol under study.  A trade of zero shares is
\* not in the domain (a BUY of quantity 0 divides by zero in costPerShare).
MainTxns ==
    {TradeTxn(d, "A", ty, q, pcf) :
        d \in Dates, ty \in {"BUY", "SELL"}, q \in 1..MaxQty, pcf \in Quotes}

\* BUY and SELL rows of a second symbol
OtherTxns ==
    {TradeTxn(d, "B", ty, 1, <<2, 0, 1>>) :
        d \in {1000, 1001}, ty \in {"BUY", "SELL"}}

\* DIVIDEND rows carry no quantity or price (the normalizer yields 0).
DividendTxns ==
    {[date |-> 1001, symbol |-> "A", transactionType |-> "DIVIDEND",
      quantity |-> 0, price |-> 0, commission |-> 0, fees |-> 0,
      isOption |-> FALSE]}

Transaction == MainTxns \cup OtherTxns \cup DividendTxns

\* ----------------------------------------------------- option input domain
\* An option symbol is ticker, six digits of expiry, C or P, strike.
OptionSymbol(ticker, cp) ==
    [ticker |-> ticker, expiry |-> 260109, cp |-> cp, strike |-> 5]
CallSymbol == OptionSymbol("A", "C")
PutSymbol == OptionSymbol("A", "P")

OpenTypes == {"OPTION_SELL_OPEN", "OPTION_BUY_OPEN"}
CloseTypes == {"OPTION_BUY_CLOSE", "OPTION_SELL_CLOSE"}

\* the words of the Action column that the code looks for
ActionWords(type, symbol) ==
    {IF symbol.cp = "C" THEN "CALL" ELSE "PUT"}
    \cup (IF type \in {"OPTION_SELL_OPEN", "OPTION_SELL_CLOSE"} THEN {"SOLD"} ELSE {})
    \cup (IF type \in {"OPTION_BUY_OPEN", "OPTION_BUY_CLOSE"} THEN {"BOUGHT"} ELSE {})
    \cup (IF type \in OpenTypes THEN {"OPENING"} ELSE {})
    \cup (IF type \in CloseTypes THEN {"CLOSING"} ELSE {})
    \cup (IF type = "OPTION_ASSIGNED" THEN {"ASSIGNED"} ELSE {})
    \cup (IF type = "OPTION_EXPIRED" THEN {"EXPIRED"} ELSE {})

\* amount is the cash effect of the row: negative when premium is paid
OptionTxn(d, s, ty, q, premium) ==
    [date |-> d, symbol |-> s, transactionType |-> ty, quantity |-> q,
     amount |-> IF ty \in {"OPTION_BUY_OPEN", "OPTION_BUY_CLOSE"}
                THEN -premium ELSE premium,
     action |-> ActionWords(ty, s), isOption |-> TRUE]

\* opens and closes of the call under study, for nothing or for 3 dollars
OptionMainTxns ==
    {OptionTxn(1001, CallSymbol, ty, q, a) :
        ty \in OpenTypes \cup CloseTypes, q \in 1..MaxQty, a \in {0, 3}}

\* expiry and assignment rows: the quantity and amount are not read
OptionEndTxns ==
    {OptionTxn(1001, CallSymbol, ty, 1, 0) :
        ty \in {"OPTION_EXPIRED", "OPTION_ASSIGNED"}}

\* rows of an earlier date
OptionEarlyTxns ==
    {OptionTxn(1000, CallSymbol, "OPTION_SELL_OPEN", 1, 3),
     OptionTxn(1000, CallSymbol, "OPTION_EXPIRED", 1, 0)}

\* rows of a put
OptionPutTxns ==
    {OptionTxn(1001, PutSymbol, "OPTION_SELL_OPEN", 1, 3),
     OptionTxn(1001, PutSymbol, "OPTION_BUY_OPEN", 1, 3),
     OptionTxn(1001, PutSymbol, "OPTION_BUY_CLOSE", 1, 0),
     OptionTxn(1001, PutSymbol, "OPTION_EXPIRED", 1, 0)}

\* stock rows next to the option rows: shares of the underlying, a dividend
OptionStockTxns ==
    {t \in MainTxns : t.date = 1001 /\ t.price = 2} \cup DividendTxns

OptionInput ==
    OptionMainTxns \cup OptionEndTxns \cup OptionEarlyTxns \cup OptionPutTxns
        \cup OptionStockTxns

\* ---------------------------------------------------------------- helpers
Abs(x) == IF x < 0 THEN -x ELSE x

\* Math.ceil(a / b) for a >= 0, b > 0
CeilDiv(a, b) == (a + b - 1) \div b

SumOver(s, F(_)) ==
    LET f[i \in 0..Len(s)] == IF i = 0 THEN 0 ELSE f[i - 1] + F(s[i])
    IN  f[Len(s)]

\* fault: the emptied element is left in the array
RemoveAtLeavesEmpty(s, i) == [s EXCEPT ![i].quantity = 0]
RemoveAt(s, i) == SubSeq(s, 1, i - 1) \o SubSeq(s, i + 1, Len(s))

\* Array.prototype.sort with (a, b) => a.date - b.date: stable, ascending.
InsertByDate(t, s) ==
    LET k == Cardinality({i \in 1..Len(s) : s[i].date <= t.date})
    IN  SubSeq(s, 1, k) \o <<t>> \o SubSeq(s, k + 1, Len(s))

RECURSIVE SortByDate(_)
SortByDate(s) ==
    IF s = <<>> THEN <<>>
    ELSE InsertByDate(s[Len(s)], SortByDate(SubSeq(s, 1, Len(s) - 1)))

\* ------------------------------------------------------------------ state
VARIABLES
    transactions,   \* the caller's array of normalized transactions
    taxStrategy,    \* useState('FIFO') of App, and the taxStrategy argument
                    \* of the running calculateGainsLosses
    calls,          \* calls of calculateGainsLosses made on this array
    stock,          \* the locals of the running calculateStockGains
    option,         \* the locals of the running calculateOptionGains
    gainsLosses,    \* results.gainsLosses of the App: the last object returned
    xirr,           \* the locals of the running calculateXIRR
    results,        \* useState(null) of App: null or the object on display
    loading,        \* useState(false) of App
    error,          \* useState(null) of App
    parses          \* the promises of parseCSV, in the order of the uploads

\* the state of App next to taxStrategy
appVars == <<results, loading, error, parses>>

vars == <<transactions, taxStrategy, calls, stock, option, gainsLosses, xirr,
          appVars>>

\* const stockTransactions = transactions.filter(t => !t.isOption)
StockTransactions(txns) == SelectSeq(txns, LAMBDA t : ~t.isOption)

\* The caller's array after a call: filter() and [...transactions] copy
\* before sort() runs, and no transaction object is written to.
CallerArray(txns) == txns

\* const positions = {}
EmptyPositions == [s \in {} |-> <<>>]

\* positions[symbol] || []
PositionList(positions, symbol) ==
    IF symbol \in DOMAIN positions THEN positions[symbol] ELSE <<>>

SetPositionList(positions, symbol, lots) ==
    [s \in DOMAIN positions \cup {symbol} |->
        IF s = symbol THEN lots ELSE positions[s]]

\* fault: commission and fees are left out of the cost basis
CostPerShareNoFees(txn) == Money(txn.price)

\* price + (commission + fees) / quantity
CostPerShare(txn) ==
    Money(txn.price) + Money(txn.commission + txn.fees) \div txn.quantity

\* quantity * price - commission - fees
SellProceeds(txn) ==
    Money(txn.quantity * txn.price - txn.commission - txn.fees)

\* (units / quantity) * totalProceeds
ProRated(units, quantity, totalProceeds) ==
    (units * totalProceeds) \div quantity

\* units * lot.costPerShare
\* fault: a partial sale is charged the cost of the whole lot
LotCostWholeLot(units, lot) == lot.quantity * lot.costPerShare
LotCost(units, lot) == units * lot.costPerShare

\* Math.ceil(Math.abs(sellDate - buyDate) / (1000 * 60 * 60 * 24))
DiffDays(sellDate, buyDate) == CeilDiv(Abs(sellDate - buyDate), DayTicks)

\* diffDays > 365 ? 'LONG' : 'SHORT'
\* fault: a lot held exactly 365 days counts as LONG
TermOfInclusive(diffDays) == IF diffDays >= LongTermDays THEN "LONG" ELSE "SHORT"
TermOf(diffDays) == IF diffDays > LongTermDays THEN "LONG" ELSE "SHORT"

\* The locals of calculateStockGains before its loop: nothing is carried
\* over from an earlier call (prev is the record the earlier call left).
\* fault: positions is kept at module level and survives the call
NewStockKeepsLots(prev, txns) ==
    [pc |-> "loop", sorted |-> SortByDate(txns), idx |-> 1,
     positions |-> prev.positions, trades |-> <<>>,
     totalRealizedGains |-> 0, totalRealizedLosses |-> 0,
     shortTermGains |-> 0, shortTermLosses |-> 0,
     longTermGains |-> 0, longTermLosses |-> 0,
     remainingToSell |-> 0, totalCost |-> 0, totalProceeds |-> 0,
     soldLots |-> <<>>, lotsAtSell |-> <<>>]
NewStock(prev, txns) ==
    [pc |-> "loop", sorted |-> SortByDate(txns), idx |-> 1,
     positions |-> EmptyPositions, trades |-> <<>>,
     totalRealizedGains |-> 0, totalRealizedLosses |-> 0,
     shortTermGains |-> 0, shortTermLosses |-> 0,
     longTermGains |-> 0, longTermLosses |-> 0,
     remainingToSell |-> 0, totalCost |-> 0, totalProceeds |-> 0,
     soldLots |-> <<>>, lotsAtSell |-> <<>>]

\* Before the first call: no locals exist yet.
NoStock ==
    [pc |-> "start", sorted |-> <<>>, idx |-> 1,
     positions |-> EmptyPositions, trades |-> <<>>,
     totalRealizedGains |-> 0, totalRealizedLosses |-> 0,
     shortTermGains |-> 0, shortTermLosses |-> 0,
     longTermGains |-> 0, longTermLosses |-> 0,
     remainingToSell |-> 0, totalCost |-> 0, totalProceeds |-> 0,
     soldLots |-> <<>>, lotsAtSell |-> <<>>]

\* ------------------------------------------------------------------- BUY
\* fault: the trade of a BUY shows its cost as a loss no total holds
BuyTradeAsLoss(txn) ==
    [date |-> txn.date, symbol |-> txn.symbol, type |-> "BUY",
     quantity |-> txn.quantity, price |-> txn.price,
     totalCost |-> Money(txn.quantity * txn.price + txn.commission + txn.fees),
     realizedPL |-> -Money(txn.quantity * txn.price + txn.commission + txn.fees)]

BuyTrade(txn) ==
    [date |-> txn.date, symbol |-> txn.symbol, type |-> "BUY",
     quantity |-> txn.quantity, price |-> txn.price,
     totalCost |-> Money(txn.quantity * txn.price + txn.commission + txn.fees),
     realizedPL |-> 0]

\* fault: the lot of a BUY holds a single share
NewLotSingleShare(txn) ==
    [quantity |-> 1, costPerShare |-> CostPerShare(txn), date |-> txn.date]

NewLot(txn) ==
    [quantity |-> txn.quantity, costPerShare |-> CostPerShare(txn),
     date |-> txn.date]

Buy(st, txn) ==
    [st EXCEPT
        !.positions = SetPositionList(st.positions, txn.symbol,
                        Append(PositionList(st.positions, txn.symbol), NewLot(txn))),
        !.trades = Append(st.trades, BuyTrade(txn)),
        !.idx = st.idx + 1]

\* ----------------------------------------------------------- orphaned SELL
\* fault: missing history is assumed short term
OrphanTermShort == "SHORT"
OrphanTerm == "LONG"

OrphanNote == "Missing buy history - Assumed Long Term"
PartialOrphanNote == "Missing buy history (Partial)"

OrphanTrade(txn) ==
    LET totalProceeds == SellProceeds(txn)
        estimatedCost == 0
        realizedPL == totalProceeds - estimatedCost
    IN  [date |-> txn.date, symbol |-> txn.symbol, type |-> "SELL",
         quantity |-> txn.quantity, price |-> txn.price,
         totalProceeds |-> totalProceeds, totalCost |-> estimatedCost,
         realizedPL |-> realizedPL, term |-> OrphanTerm,
         lots |-> <<[quantity |-> txn.quantity, date |-> EpochDate,
                     cost |-> estimatedCost, proceeds |-> totalProceeds,
                     realizedPL |-> realizedPL, term |-> OrphanTerm,
                     note |-> OrphanNote]>>]

OrphanSell(st, txn) ==
    LET trade == OrphanTrade(txn)
        pl == trade.realizedPL
    IN  [st EXCEPT
            !.longTermGains = IF pl > 0 THEN @ + pl ELSE @,
            !.longTermLosses = IF pl > 0 THEN @ ELSE @ + pl,
            !.totalRealizedGains = @ + pl,
            !.trades = Append(st.trades, trade),
            !.idx = st.idx + 1]

\* ------------------------------------------------------- SELL against lots
\* The forEach of the HIFO branch: maxCost starts at -1, a lot replaces the
\* choice only when its costPerShare is strictly greater.
RECURSIVE HifoScan(_, _, _, _)
HifoScan(lots, i, maxCost, lotIndex) ==
    IF i > Len(lots) THEN lotIndex
    ELSE IF lots[i].costPerShare > maxCost
         THEN HifoScan(lots, i + 1, lots[i].costPerShare, i)
         ELSE HifoScan(lots, i + 1, maxCost, lotIndex)

\* fault: >= instead of >, so the last of the highest lots is chosen
HifoIndexLastMax(lots) ==
    CHOOSE i \in 1..Len(lots) :
        /\ \A j \in 1..Len(lots) : lots[j].costPerShare <= lots[i].costPerShare
        /\ \A j \in (i + 1)..Len(lots) : lots[j].costPerShare < lots[i].costPerShare
HifoIndex(lots) == HifoScan(lots, 1, Money(-1), 1)

\* fault: FIFO takes the newest lot
FifoIndexNewest(lots) == Len(lots)
FifoIndex(lots) == 1

\* fault: LIFO takes the oldest lot
LifoIndexOldest(lots) == 1
LifoIndex(lots) == Len(lots)

\* Select lot based on strategy
SelectLot(lots, strategy) ==
    IF strategy = "LIFO" THEN LifoIndex(lots)
    ELSE IF strategy = "HIFO" THEN HifoIndex(lots)
    ELSE FifoIndex(lots)

\* let remainingToSell = quantity; let totalCost = 0; ...; const soldLots = []
\* lotsAtSell is a history field: the symbol's lots when the SELL began.
BeginSell(st, txn) ==
    [st EXCEPT
        !.pc = "selling",
        !.remainingToSell = txn.quantity,
        !.totalCost = 0,
        !.totalProceeds = SellProceeds(txn),
        !.soldLots = <<>>,
        !.lotsAtSell = PositionList(st.positions, txn.symbol)]

\* One iteration of while (remainingToSell > 0 && positionList.length > 0)
ConsumeLot(st, txn, strategy) ==
    LET lots == PositionList(st.positions, txn.symbol)
        lotIndex == SelectLot(lots, strategy)
        lot == lots[lotIndex]
        diffDays == DiffDays(txn.date, lot.date)
        term == TermOf(diffDays)
        whole == lot.quantity <= st.remainingToSell
        units == IF whole THEN lot.quantity ELSE st.remainingToSell
        lotCost == LotCost(units, lot)
        lotProceeds == ProRated(units, txn.quantity, st.totalProceeds)
        closure == [quantity |-> units, date |-> lot.date, cost |-> lotCost,
                    proceeds |-> lotProceeds, realizedPL |-> lotProceeds - lotCost,
                    daysHeld |-> diffDays, term |-> term]
        left == IF whole THEN RemoveAt(lots, lotIndex)
                ELSE [lots EXCEPT ![lotIndex].quantity = @ - units]
    IN  [st EXCEPT
            !.totalCost = @ + lotCost,
            !.soldLots = Append(@, closure),
            !.remainingToSell = IF whole THEN @ - lot.quantity ELSE 0,
            !.positions = SetPositionList(st.positions, txn.symbol, left)]

\* Handle "Partial Orphan" (Selling more than we have tracked)
\* fault: the shortfall is given the whole proceeds of the SELL
PartialOrphanLotNotProRated(st, txn) ==
    [quantity |-> st.remainingToSell, date |-> EpochDate, cost |-> 0,
     proceeds |-> st.totalProceeds, realizedPL |-> st.totalProceeds,
     term |-> OrphanTerm, note |-> PartialOrphanNote]
PartialOrphanLot(st, txn) ==
    LET orphanProceeds == ProRated(st.remainingToSell, txn.quantity, st.totalProceeds)
        orphanCost == 0
    IN  [quantity |-> st.remainingToSell, date |-> EpochDate, cost |-> orphanCost,
         proceeds |-> orphanProceeds, realizedPL |-> orphanProceeds - orphanCost,
         term |-> OrphanTerm, note |-> PartialOrphanNote]

\* terms.size > 1 ? 'MIXED' : (terms.values().next().value || 'SHORT')
TradeTerm(lots) ==
    LET terms == {lots[i].term : i \in 1..Len(lots)}
    IN  IF Cardinality(terms) > 1 THEN "MIXED"
        ELSE IF terms = {} THEN "SHORT"
        ELSE CHOOSE t \in terms : TRUE

\* sum of lot.realizedPL over the lots of one term and one sign
TermBucket(lots, term, gains) ==
    SumOver(lots, LAMBDA l :
        IF l.term = term /\ ((l.realizedPL > 0) = gains) THEN l.realizedPL ELSE 0)

\* The code after the while loop, to trades.push
FinishSell(st, txn) ==
    LET partial == st.remainingToSell > 0
        orphan == PartialOrphanLot(st, txn)
        soldLots == IF partial THEN Append(st.soldLots, orphan) ELSE st.soldLots
        totalCost == IF partial THEN st.totalCost + orphan.cost ELSE st.totalCost
        realizedPL == st.totalProceeds - totalCost
        \* the partial-orphan branch books orphanPL before the forEach does
        early == IF partial THEN orphan.realizedPL ELSE 0
        trade == [date |-> txn.date, symbol |-> txn.symbol, type |-> "SELL",
                  quantity |-> txn.quantity, price |-> txn.price,
                  totalProceeds |-> st.totalProceeds, totalCost |-> totalCost,
                  realizedPL |-> realizedPL, term |-> TradeTerm(soldLots),
                  lots |-> soldLots]
    IN  [st EXCEPT
            !.pc = "loop",
            !.idx = st.idx + 1,
            !.totalRealizedGains = IF realizedPL > 0 THEN @ + realizedPL ELSE @,
            !.totalRealizedLosses = IF realizedPL > 0 THEN @ ELSE @ + realizedPL,
            !.longTermGains = @ + (IF early > 0 THEN early ELSE 0)
                                + TermBucket(soldLots, "LONG", TRUE),
            !.longTermLosses = @ + (IF early > 0 THEN 0 ELSE early)
                                 + TermBucket(soldLots, "LONG", FALSE),
            !.shortTermGains = @ + TermBucket(soldLots, "SHORT", TRUE),
            !.shortTermLosses = @ + TermBucket(soldLots, "SHORT", FALSE),
            !.trades = Append(st.trades, trade),
            !.remainingToSell = 0, !.totalCost = 0, !.totalProceeds = 0,
            !.soldLots = <<>>, !.lotsAtSell = <<>>]

\* ------------------------------------------------------------ wash sales
\* const soldBuyDates = new Set((trade.lots || []).map(l => ...getTime()))
SoldBuyDates(trade) ==
    IF "lots" \in DOMAIN trade
    THEN {trade.lots[i].date : i \in 1..Len(trade.lots)}
    ELSE {}

\* the predicate of transactions.find
IsReplacement(t, trade) ==
    /\ t.symbol = trade.symbol
    /\ t.transactionType = "BUY"
    /\ t.date \notin SoldBuyDates(trade)
    /\ Abs(t.date - trade.date) <= WashSaleDays * DayTicks

\* trade.isWashSale = true; trade.washSaleMsg = `... ${replacementShare.date}`
\* (the message is modelled by the date it cites)
\* fault: a flagged trade has its loss disallowed
FlagTradeDisallowLoss(trade, replacementShare) ==
    [f \in DOMAIN trade \cup {"isWashSale", "washSaleMsg"} |->
        IF f = "isWashSale" THEN TRUE
        ELSE IF f = "washSaleMsg" THEN replacementShare.date
        ELSE IF f = "realizedPL" THEN 0
        ELSE trade[f]]
FlagTrade(trade, replacementShare) ==
    [f \in DOMAIN trade \cup {"isWashSale", "washSaleMsg"} |->
        IF f = "isWashSale" THEN TRUE
        ELSE IF f = "washSaleMsg" THEN replacementShare.date
        ELSE trade[f]]

\* the body of trades.forEach(trade => ...)
WashSaleCheck(trade, txns) ==
    IF trade.realizedPL < 0 /\ trade.type = "SELL"
    THEN LET found == {i \in 1..Len(txns) : IsReplacement(txns[i], trade)}
         IN  IF found = {} THEN trade
             ELSE FlagTrade(trade, txns[CHOOSE i \in found : \A j \in found : i <= j])
    ELSE trade

WashSalePass(st, txns) ==
    [st EXCEPT
        !.pc = "done",
        !.trades = [k \in 1..Len(st.trades) |-> WashSaleCheck(st.trades[k], txns)]]

\* The object calculateStockGains returns
StockResults(st) ==
    [totalRealizedGains |-> st.totalRealizedGains,
     totalRealizedLosses |-> st.totalRealizedLosses,
     shortTermGains |-> st.shortTermGains,
     shortTermLosses |-> st.shortTermLosses,
     longTermGains |-> st.longTermGains,
     longTermLosses |-> st.longTermLosses,
     trades |-> st.trades,
     openPositions |-> st.positions]

\* ======================================================================
\* calculateGainsLosses: the ownership evidence, and calculateOptionGains
\* ======================================================================
\* txn.action?.includes(word): the action text is modelled by the set of
\* the words it holds; a row without an action includes nothing
Includes(txn, word) == "action" \in DOMAIN txn /\ word \in txn.action

\* const optionTransactions = transactions.filter(t => t.isOption)
OptionTransactions(txns) == SelectSeq(txns, LAMBDA t : t.isOption)

\* the leading alphabetic run of the symbol
GetUnderlyingSymbol(optionSymbol) == optionSymbol.ticker

\* the C or P that follows the six digits of the expiry
GetOptionType(optionSymbol) == IF optionSymbol.cp = "C" THEN "CALL" ELSE "PUT"

\* the symbols one row adds to ownedSymbols
OwnedBy(txn) ==
    (IF txn.transactionType = "DIVIDEND" THEN {txn.symbol} ELSE {})
    \cup (IF Includes(txn, "ASSIGNED") /\ Includes(txn, "CALL")
          THEN {GetUnderlyingSymbol(txn.symbol)} ELSE {})
    \cup (IF Includes(txn, "SOLD") /\ Includes(txn, "ASSIGNED")
          THEN {txn.symbol} ELSE {})
    \cup (IF txn.transactionType = "SELL" THEN {txn.symbol} ELSE {})

\* for (const txn of transactions) { ... ownedSymbols.add(...) }
OwnedSymbols(txns) == UNION {OwnedBy(txns[i]) : i \in 1..Len(txns)}

\* positions[underlyingSymbol].reduce((sum, lot) => sum + lot.quantity, 0)
GetSharesOwned(positions, underlyingSymbol) ==
    IF underlyingSymbol \notin DOMAIN positions THEN 0
    ELSE SumOver(positions[underlyingSymbol], LAMBDA lot : lot.quantity)

\* Math.floor(sharesOwned / 100)
ContractsNeededForCovered(sharesOwned) == sharesOwned \div 100

StrategyNames ==
    {"coveredCalls", "nakedCalls", "cashSecuredPuts", "longCalls", "longPuts"}
ShortStrategies == {"coveredCalls", "nakedCalls", "cashSecuredPuts"}
LongStrategies == {"longCalls", "longPuts"}

\* One entry of strategyResults.  nanFields holds the names of the
\* properties that are NaN: a property the entry was not created with is
\* undefined, and undefined += number is NaN.
ShortAggregate ==
    [premiumCollected |-> 0, premiumRetained |-> 0, premiumLost |-> 0,
     tradesCount |-> 0, trades |-> <<>>, nanFields |-> {}]
LongAggregate ==
    [premiumPaid |-> 0, gains |-> 0, losses |-> 0,
     tradesCount |-> 0, trades |-> <<>>, nanFields |-> {}]

NewStrategyResults ==
    [s \in StrategyNames |->
        IF s \in LongStrategies THEN LongAggregate ELSE ShortAggregate]

\* strategyResults[strategy][field] += x
AddTo(aggregate, field, x) ==
    IF field \in DOMAIN aggregate /\ field \notin aggregate.nanFields
    THEN [aggregate EXCEPT ![field] = @ + x]
    ELSE [aggregate EXCEPT !.nanFields = @ \cup {field}]

\* strategyResults[strategy].trades.push(trade)
PushTrade(aggregate, trade) == [aggregate EXCEPT !.trades = Append(@, trade)]

\* The locals of calculateOptionGains before its loop.
NewOption(txns, stockPositions, ownedSymbols) ==
    [pc |-> "loop", sorted |-> SortByDate(txns), idx |-> 1,
     stockPositions |-> stockPositions, ownedSymbols |-> ownedSymbols,
     optionPositions |-> EmptyPositions, trades |-> <<>>,
     totalRealizedGains |-> 0, totalRealizedLosses |-> 0,
     shortTermGains |-> 0, shortTermLosses |-> 0,
     longTermGains |-> 0, longTermLosses |-> 0,
     strategyResults |-> NewStrategyResults,
     remainingToClose |-> 0, totalPremium |-> 0, strategy |-> "",
     closed |-> <<>>, queueAtClose |-> <<>>]

\* calculateOptionGains has not been called.
NoOption ==
    [pc |-> "wait", sorted |-> <<>>, idx |-> 1,
     stockPositions |-> EmptyPositions, ownedSymbols |-> {},
     optionPositions |-> EmptyPositions, trades |-> <<>>,
     totalRealizedGains |-> 0, totalRealizedLosses |-> 0,
     shortTermGains |-> 0, shortTermLosses |-> 0,
     longTermGains |-> 0, longTermLosses |-> 0,
     strategyResults |-> NewStrategyResults,
     remainingToClose |-> 0, totalPremium |-> 0, strategy |-> "",
     closed |-> <<>>, queueAtClose |-> <<>>]

\* useState(null)
Null == [null |-> TRUE]

\* App as it is mounted: no results, not loading, no error, nothing uploaded
AppIdle ==
    /\ results = Null
    /\ loading = FALSE
    /\ error = Null
    /\ parses = <<>>

\* Math.abs(amount)
Premium(txn) == Money(Abs(txn.amount))

\* ----------------------------------------------------------------- opens
\* Determine strategy type: every short call is treated as covered.
\* fault: the strict mode of the comment, naked unless covered or evidenced
ShortCallStrategyStrict(quantity, contractsNeededForCovered, hasOwnershipEvidence) ==
    IF contractsNeededForCovered >= quantity \/ hasOwnershipEvidence
    THEN "coveredCalls" ELSE "nakedCalls"
ShortCallStrategy(quantity, contractsNeededForCovered, hasOwnershipEvidence) ==
    "coveredCalls"

SellOpenStrategy(st, txn) ==
    LET underlyingSymbol == GetUnderlyingSymbol(txn.symbol)
        sharesOwned == GetSharesOwned(st.stockPositions, underlyingSymbol)
    IN  IF GetOptionType(txn.symbol) = "CALL"
        THEN ShortCallStrategy(txn.quantity,
                               ContractsNeededForCovered(sharesOwned),
                               underlyingSymbol \in st.ownedSymbols)
        ELSE "cashSecuredPuts"

BuyOpenStrategy(txn) ==
    IF GetOptionType(txn.symbol) = "CALL" THEN "longCalls" ELSE "longPuts"

NewPosition(txn, side, strategy) ==
    [quantity |-> txn.quantity,
     premiumPerContract |-> Premium(txn) \div txn.quantity,
     date |-> txn.date, type |-> side, strategy |-> strategy,
     optionType |-> GetOptionType(txn.symbol)]

OpenTrade(txn, type, strategy) ==
    [date |-> txn.date, symbol |-> txn.symbol,
     underlyingSymbol |-> GetUnderlyingSymbol(txn.symbol), type |-> type,
     optionType |-> GetOptionType(txn.symbol), strategy |-> strategy,
     quantity |-> txn.quantity, premium |-> Premium(txn), realizedPL |-> 0]

\* transactionType === 'OPTION_SELL_OPEN'
SellOpen(st, txn) ==
    LET strategy == SellOpenStrategy(st, txn)
        trade == OpenTrade(txn, "SELL_OPEN", strategy)
        aggregate == AddTo(st.strategyResults[strategy], "premiumCollected", Premium(txn))
    IN  [st EXCEPT
            !.optionPositions = SetPositionList(st.optionPositions, txn.symbol,
                Append(PositionList(st.optionPositions, txn.symbol),
                       NewPosition(txn, "SHORT", strategy))),
            !.strategyResults[strategy] =
                PushTrade([aggregate EXCEPT !.tradesCount = @ + 1], trade),
            !.trades = Append(st.trades, trade),
            !.idx = st.idx + 1]

\* transactionType === 'OPTION_BUY_OPEN'
BuyOpen(st, txn) ==
    LET strategy == BuyOpenStrategy(txn)
        trade == OpenTrade(txn, "BUY_OPEN", strategy)
        aggregate == AddTo(st.strategyResults[strategy], "premiumPaid", Premium(txn))
    IN  [st EXCEPT
            !.optionPositions = SetPositionList(st.optionPositions, txn.symbol,
                Append(PositionList(st.optionPositions, txn.symbol),
                       NewPosition(txn, "LONG", strategy))),
            !.strategyResults[strategy] =
                PushTrade([aggregate EXCEPT !.tradesCount = @ + 1], trade),
            !.trades = Append(st.trades, trade),
            !.idx = st.idx + 1]

\* ---------------------------------------------------------------- closes
\* optionPositions[symbol][0]
\* fault: the newest position is closed first
FrontIndexNewest(queue) == Len(queue)
\* fault: the position to close is chosen by the stock lot strategy
FrontIndexByTaxStrategy(queue) == IF taxStrategy = "LIFO" THEN Len(queue) ELSE 1
FrontIndex(queue) == 1

\* let remainingToClose = quantity; let totalPremiumCollected = 0;
\* let strategy = optionPositions[symbol][0]?.strategy || ...
\* closed and queueAtClose are history fields: what each iteration took
\* from which position, and the queue when the close began.
BeginClose(st, txn) ==
    LET queue == PositionList(st.optionPositions, txn.symbol)
    IN  [st EXCEPT
            !.pc = "closing",
            !.remainingToClose = txn.quantity,
            !.totalPremium = 0,
            !.strategy = queue[FrontIndex(queue)].strategy,
            !.closed = <<>>,
            !.queueAtClose = queue]

\* position.quantity * position.premiumPerContract
\* fault: a partial close is credited the premium of the whole position
PositionPremiumWhole(units, position) ==
    position.quantity * position.premiumPerContract
PositionPremium(units, position) == units * position.premiumPerContract

\* if (position.quantity <= remainingToClose)
\* fault: the comparison is turned around
ClosesWholeReversed(position, remainingToClose) ==
    position.quantity >= remainingToClose
ClosesWhole(position, remainingToClose) ==
    position.quantity <= remainingToClose

\* One iteration of while (remainingToClose > 0 && optionPositions[symbol].length > 0)
ClosePosition(st, txn) ==
    LET queue == PositionList(st.optionPositions, txn.symbol)
        index == FrontIndex(queue)
        position == queue[index]
        whole == ClosesWhole(position, st.remainingToClose)
        units == IF whole THEN position.quantity ELSE st.remainingToClose
        left == IF whole THEN RemoveAt(queue, index)
                ELSE [queue EXCEPT ![index].quantity = @ - units]
    IN  [st EXCEPT
            !.strategy = position.strategy,
            !.totalPremium = @ + PositionPremium(units, position),
            !.remainingToClose = IF whole THEN @ - position.quantity ELSE 0,
            !.optionPositions = SetPositionList(st.optionPositions, txn.symbol, left),
            !.closed = Append(@, [quantity |-> units, position |-> position])]

CloseTrade(txn, type, strategy, premium, totalProceeds, totalCost, realizedPL) ==
    [date |-> txn.date, symbol |-> txn.symbol,
     underlyingSymbol |-> GetUnderlyingSymbol(txn.symbol), type |-> type,
     optionType |-> GetOptionType(txn.symbol), strategy |-> strategy,
     quantity |-> txn.quantity, premium |-> premium,
     totalProceeds |-> totalProceeds, totalCost |-> totalCost,
     realizedPL |-> realizedPL]

\* the bookkeeping both closes share after their while loop
BookClose(st, trade, gainField, lossField) ==
    LET realizedPL == trade.realizedPL
        aggregate == st.strategyResults[st.strategy]
        booked == IF realizedPL > 0
                  THEN AddTo(aggregate, gainField, realizedPL)
                  ELSE AddTo(aggregate, lossField, Abs(realizedPL))
    IN  [st EXCEPT
            !.pc = "loop",
            !.idx = st.idx + 1,
            !.totalRealizedGains = IF realizedPL > 0 THEN @ + realizedPL ELSE @,
            !.totalRealizedLosses = IF realizedPL > 0 THEN @ ELSE @ + realizedPL,
            !.shortTermGains = IF realizedPL > 0 THEN @ + realizedPL ELSE @,
            !.shortTermLosses = IF realizedPL > 0 THEN @ ELSE @ + realizedPL,
            !.strategyResults[st.strategy] = PushTrade(booked, trade),
            !.trades = Append(st.trades, trade),
            !.remainingToClose = 0, !.totalPremium = 0, !.strategy = "",
            !.closed = <<>>, !.queueAtClose = <<>>]

\* OPTION_BUY_CLOSE, after the loop: realizedPL = totalPremiumCollected - premiumPaid
FinishBuyClose(st, txn) ==
    LET premiumPaid == Premium(txn)
        realizedPL == st.totalPremium - premiumPaid
    IN  BookClose(st,
            CloseTrade(txn, "BUY_CLOSE", st.strategy, premiumPaid,
                       st.totalPremium, premiumPaid, realizedPL),
            "premiumRetained", "premiumLost")

\* OPTION_SELL_CLOSE, after the loop: realizedPL = premiumReceived - totalPremiumPaid
FinishSellClose(st, txn) ==
    LET premiumReceived == Premium(txn)
        realizedPL == premiumReceived - st.totalPremium
    IN  BookClose(st,
            CloseTrade(txn, "SELL_CLOSE", st.strategy, premiumReceived,
                       premiumReceived, st.totalPremium, realizedPL),
            "gains", "losses")

\* ------------------------------------------------- expiry and assignment
EndTrade(txn, type, position, totalProceeds, totalCost, realizedPL) ==
    [date |-> txn.date, symbol |-> txn.symbol,
     underlyingSymbol |-> GetUnderlyingSymbol(txn.symbol), type |-> type,
     optionType |-> position.optionType, strategy |-> position.strategy,
     quantity |-> position.quantity,
     totalProceeds |-> totalProceeds, totalCost |-> totalCost,
     realizedPL |-> realizedPL]

\* const position = optionPositions[symbol].shift()
ShiftQueue(st, txn) ==
    LET queue == PositionList(st.optionPositions, txn.symbol)
    IN  SetPositionList(st.optionPositions, txn.symbol,
                        RemoveAt(queue, FrontIndex(queue)))

\* fault: a long option that expires is booked like a short one
ExpiredIsGainLongToo(position) == TRUE
ExpiredIsGain(position) == position.type = "SHORT"

\* transactionType === 'OPTION_EXPIRED', the symbol has open positions
Expired(st, txn) ==
    LET queue == PositionList(st.optionPositions, txn.symbol)
        position == queue[FrontIndex(queue)]
        strategy == position.strategy
        gain == position.quantity * position.premiumPerContract
        loss == -(position.quantity * position.premiumPerContract)
    IN  IF ExpiredIsGain(position)
        THEN LET trade == EndTrade(txn, "EXPIRED", position, gain, 0, gain)
             IN  [st EXCEPT
                    !.optionPositions = ShiftQueue(st, txn),
                    !.totalRealizedGains = @ + gain,
                    !.shortTermGains = @ + gain,
                    !.strategyResults[strategy] =
                        PushTrade(AddTo(@, "premiumRetained", gain), trade),
                    !.trades = Append(st.trades, trade),
                    !.idx = st.idx + 1]
        ELSE LET trade == EndTrade(txn, "EXPIRED", position, 0, Abs(loss), loss)
             IN  [st EXCEPT
                    !.optionPositions = ShiftQueue(st, txn),
                    !.totalRealizedLosses = @ + loss,
                    !.shortTermLosses = @ + loss,
                    !.strategyResults[strategy] =
                        PushTrade(AddTo(@, "losses", Abs(loss)), trade),
                    !.trades = Append(st.trades, trade),
                    !.idx = st.idx + 1]

\* transactionType === 'OPTION_ASSIGNED', the symbol has open positions
Assigned(st, txn) ==
    LET queue == PositionList(st.optionPositions, txn.symbol)
        position == queue[FrontIndex(queue)]
        strategy == position.strategy
        gain == position.quantity * position.premiumPerContract
        trade == EndTrade(txn, "ASSIGNED", position, gain, 0, gain)
    IN  [st EXCEPT
            !.optionPositions = ShiftQueue(st, txn),
            !.totalRealizedGains = @ + gain,
            !.shortTermGains = @ + gain,
            !.strategyResults[strategy] =
                PushTrade(AddTo(@, "premiumRetained", gain), trade),
            !.trades = Append(st.trades, trade),
            !.idx = st.idx + 1]

\* ---------------------------------------------------- summary and return
\* { ...strategyResults[s], netPL: ... }
WithNetPL(name, aggregate) ==
    [f \in DOMAIN aggregate \cup {"netPL"} |->
        IF f = "netPL"
        THEN IF name \in LongStrategies
             THEN aggregate.gains - aggregate.losses
             ELSE aggregate.premiumRetained - aggregate.premiumLost
        ELSE aggregate[f]]

StrategySummary(strategyResults) ==
    [s \in StrategyNames |-> WithNetPL(s, strategyResults[s])]

\* fault: every option trade counts, opening trades too
IsAnyTrade(t) == TRUE
IsClosingTrade(t) == t.type \in {"EXPIRED", "ASSIGNED", "BUY_CLOSE", "SELL_CLOSE"}

\* (winningTrades.length / totalClosedTrades.length) * 100, as the fraction
\* <<numerator, denominator>> in lowest terms
WinRate(trades) ==
    LET totalClosedTrades == SelectSeq(trades, IsClosingTrade)
        winningTrades == SelectSeq(totalClosedTrades, LAMBDA t : t.realizedPL > 0)
        n == 100 * Len(winningTrades)
        d == Len(totalClosedTrades)
    IN  IF d > 0 THEN <<n \div Gcd(n, d), d \div Gcd(n, d)>> ELSE <<0, 1>>

\* fault: the totals are reported as long-term
OptionResultsLongTerm(st) ==
    [totalRealizedGains |-> st.totalRealizedGains,
     totalRealizedLosses |-> st.totalRealizedLosses,
     shortTermGains |-> st.longTermGains,
     shortTermLosses |-> st.longTermLosses,
     longTermGains |-> st.shortTermGains,
     longTermLosses |-> st.shortTermLosses,
     trades |-> st.trades,
     openPositions |-> st.optionPositions,
     strategySummary |-> StrategySummary(st.strategyResults),
     winRate |-> WinRate(st.trades)]

\* The object calculateOptionGains returns
OptionResults(st) ==
    [totalRealizedGains |-> st.totalRealizedGains,
     totalRealizedLosses |-> st.totalRealizedLosses,
     shortTermGains |-> st.shortTermGains,
     shortTermLosses |-> st.shortTermLosses,
     longTermGains |-> st.longTermGains,
     longTermLosses |-> st.longTermLosses,
     trades |-> st.trades,
     openPositions |-> st.optionPositions,
     strategySummary |-> StrategySummary(st.strategyResults),
     winRate |-> WinRate(st.trades)]

\* fault: the option engine's totals and trades are left out
GainsLossesStockOnly(stockResults, optionResults) ==
    [totalRealizedGains |-> stockResults.totalRealizedGains,
     totalRealizedLosses |-> stockResults.totalRealizedLosses,
     netPL |-> stockResults.totalRealizedGains
                + stockResults.totalRealizedLosses,
     stockResults |-> stockResults,
     optionResults |-> optionResults,
     allTrades |-> stockResults.trades]

\* The object calculateGainsLosses returns
GainsLosses(stockResults, optionResults) ==
    LET totalRealizedGains ==
            stockResults.totalRealizedGains + optionResults.totalRealizedGains
        totalRealizedLosses ==
            stockResults.totalRealizedLosses + optionResults.totalRealizedLosses
    IN  [totalRealizedGains |-> totalRealizedGains,
         totalRealizedLosses |-> totalRealizedLosses,
         netPL |-> totalRealizedGains + totalRealizedLosses,
         stockResults |-> stockResults,
         optionResults |-> optionResults,
         allTrades |-> stockResults.trades \o optionResults.trades]

\* ======================================================================
\* JavaScript numbers: IEEE-754 binary64 with round-to-nearest-even
\* ======================================================================
\* A natural number of any size is the sequence of its digits in base
\* LimbBase, least significant first and without leading zeros (TLC's
\* integers have 32 bits).
LimbBits == 15

RECURSIVE Pow2(_)
Pow2(n) == IF n = 0 THEN 1 ELSE 2 * Pow2(n - 1)

LimbBase == Pow2(LimbBits)

Limb(a, i) == IF i <= Len(a) THEN a[i] ELSE 0

RECURSIVE BNorm(_)
BNorm(a) ==
    IF a = <<>> THEN <<>>
    ELSE IF a[Len(a)] = 0 THEN BNorm(SubSeq(a, 1, Len(a) - 1)) ELSE a

BFromInt(n) ==
    IF n = 0 THEN <<>>
    ELSE IF n < LimbBase THEN <<n>>
    ELSE IF n < LimbBase * LimbBase THEN <<n % LimbBase, n \div LimbBase>>
    ELSE <<n % LimbBase, (n \div LimbBase) % LimbBase,
           n \div (LimbBase * LimbBase)>>

RECURSIVE BAddFrom(_, _, _, _)
BAddFrom(a, b, i, carry) ==
    IF i > Len(a) /\ i > Len(b)
    THEN IF carry = 0 THEN <<>> ELSE <<carry>>
    ELSE LET s == Limb(a, i) + Limb(b, i) + carry
         IN  <<s % LimbBase>> \o BAddFrom(a, b, i + 1, s \div LimbBase)

BAdd(a, b) == BAddFrom(a, b, 1, 0)

\* a - b for a >= b
RECURSIVE BSubFrom(_, _, _, _)
BSubFrom(a, b, i, borrow) ==
    IF i > Len(a) THEN <<>>
    ELSE LET d == a[i] - Limb(b, i) - borrow
         IN  IF d < 0
             THEN <<d + LimbBase>> \o BSubFrom(a, b, i + 1, 1)
             ELSE <<d>> \o BSubFrom(a, b, i + 1, 0)

BSub(a, b) == BNorm(BSubFrom(a, b, 1, 0))

\* -1, 0 or 1 as a is below, equal to or above b
RECURSIVE BCmpFrom(_, _, _)
BCmpFrom(a, b, i) ==
    IF i = 0 THEN 0
    ELSE IF a[i] < b[i] THEN -1
    ELSE IF a[i] > b[i] THEN 1
    ELSE BCmpFrom(a, b, i - 1)

BCmp(a, b) ==
    IF Len(a) < Len(b) THEN -1
    ELSE IF Len(a) > Len(b) THEN 1
    ELSE BCmpFrom(a, b, Len(a))

\* a * k + carry for a digit k
RECURSIVE BMulSmallFrom(_, _, _, _)
BMulSmallFrom(a, k, i, carry) ==
    IF i > Len(a)
    THEN IF carry = 0 THEN <<>> ELSE <<carry>>
    ELSE LET p == a[i] * k + carry
         IN  <<p % LimbBase>> \o BMulSmallFrom(a, k, i + 1, p \div LimbBase)

BMulSmall(a, k) == IF k = 0 THEN <<>> ELSE BMulSmallFrom(a, k, 1, 0)

Zeros(n) == [i \in 1..n |-> 0]

RECURSIVE BMulFrom(_, _, _)
BMulFrom(a, b, j) ==
    IF j > Len(b) THEN <<>>
    ELSE BAdd(IF b[j] = 0 THEN <<>> ELSE Zeros(j - 1) \o BMulSmall(a, b[j]),
              BMulFrom(a, b, j + 1))

BMul(a, b) == IF a = <<>> \/ b = <<>> THEN <<>> ELSE BMulFrom(a, b, 1)

RECURSIVE BitLenOfLimb(_)
BitLenOfLimb(d) == IF d = 0 THEN 0 ELSE 1 + BitLenOfLimb(d \div 2)

BBitLen(a) ==
    IF a = <<>> THEN 0
    ELSE LimbBits * (Len(a) - 1) + BitLenOfLimb(a[Len(a)])

\* a * 2^n
BShl(a, n) ==
    IF a = <<>> THEN <<>>
    ELSE Zeros(n \div LimbBits) \o BMulSmall(a, Pow2(n % LimbBits))

\* floor(a / k) for a digit k, from the top digit down
RECURSIVE BDivSmallFrom(_, _, _, _)
BDivSmallFrom(a, k, i, rem) ==
    IF i = 0 THEN <<>>
    ELSE LET cur == rem * LimbBase + a[i]
         IN  BDivSmallFrom(a, k, i - 1, cur % k) \o <<cur \div k>>

\* floor(a / 2^n)
BShr(a, n) ==
    LET whole == n \div LimbBits
        rest == IF whole >= Len(a) THEN <<>> ELSE SubSeq(a, whole + 1, Len(a))
    IN  BNorm(BDivSmallFrom(rest, Pow2(n % LimbBits), Len(rest), 0))

BIsOdd(a) == a # <<>> /\ a[1] % 2 = 1

\* the largest digit d with b * d <= cur, for cur < b * LimbBase, found
\* bit by bit from the top
RECURSIVE QuotientDigit(_, _, _, _)
QuotientDigit(cur, b, bit, d) ==
    IF bit < 0 THEN d
    ELSE LET t == d + Pow2(bit)
         IN  IF BCmp(BMulSmall(b, t), cur) <= 0
             THEN QuotientDigit(cur, b, bit - 1, t)
             ELSE QuotientDigit(cur, b, bit - 1, d)

\* <<quotient, remainder>> of a by b # 0: long division in base LimbBase,
\* with q and r the quotient and remainder of the digits of a above digit i
RECURSIVE BDivModFrom(_, _, _, _, _)
BDivModFrom(a, b, i, q, r) ==
    IF i = 0 THEN <<BNorm(q), r>>
    ELSE LET cur == BNorm(<<a[i]>> \o r)
             d == QuotientDigit(cur, b, LimbBits - 1, 0)
         IN  BDivModFrom(a, b, i - 1, <<d>> \o q, BSub(cur, BMulSmall(b, d)))

BDivMod(a, b) == BDivModFrom(a, b, Len(a), <<>>, <<>>)

\* ------------------------------------------------------------------ values
\* A finite number is (-1)^s * m * 2^e with m below 2^53 and e at least
\* MinExp; m is at least 2^52 unless e = MinExp (subnormal) and zero is
\* m = 0 with e = MinExp, so that equal numbers are equal records (but
\* for the sign of zero).
MantBits == 53
MinExp == 2 - 1023 - MantBits
MaxExp == 1024 - MantBits

NaN == [k |-> "nan"]
Inf(s) == [k |-> "inf", s |-> s]
Num(s, m, e) == [k |-> "num", s |-> s, m |-> m, e |-> e]
Zero(s) == Num(s, <<>>, MinExp)

IsNaN(x) == x.k = "nan"
IsInf(x) == x.k = "inf"
IsZero(x) == x.k = "num" /\ x.m = <<>>

\* a finite result, or the infinity it overflows to
Finite(s, m, e) == IF e > MaxExp THEN Inf(s) ELSE Num(s, m, e)

\* the rounded mantissa r with last place 2^q, renormalised when the
\* rounding carried into bit MantBits + 1
Carried(s, r, q) ==
    IF r = <<>> THEN Zero(s)
    ELSE IF BBitLen(r) > MantBits THEN Finite(s, BShr(r, 1), q + 1)
    ELSE Finite(s, r, q)

\* kept is m without its lowest d bits and c compares the dropped bits with
\* half of the last place kept: ties go to the even mantissa
RoundUp(s, kept, q, c, sticky) ==
    Carried(s,
            IF c > 0 \/ (c = 0 /\ (sticky \/ BIsOdd(kept)))
            THEN BAdd(kept, <<1>>) ELSE kept,
            q)

RoundKept(s, m, q, d, kept, sticky) ==
    RoundUp(s, kept, q, BCmp(BSub(m, BShl(kept, d)), BShl(<<1>>, d - 1)), sticky)

\* the result has its last place at 2^q
RoundAt(s, m, e, sticky, q) ==
    IF q <= e THEN Finite(s, BShl(m, e - q), q)
    ELSE IF q - e > BBitLen(m) THEN Zero(s)
    ELSE RoundKept(s, m, q, q - e, BShr(m, q - e), sticky)

\* The number nearest to (-1)^s * (m + f) * 2^e, ties to even, where f is
\* 0 or, if sticky, some fraction strictly between 0 and 1 (m then has
\* more than MantBits + 1 bits).
Round(s, m, e, sticky) ==
    IF m = <<>> THEN Zero(s)
    ELSE RoundAt(s, m, e, sticky,
                 IF e + BBitLen(m) - MantBits < MinExp THEN MinExp
                 ELSE e + BBitLen(m) - MantBits)

\* an integer of TLC as a number
FromInt(n) ==
    Round(IF n < 0 THEN 1 ELSE 0, BFromInt(IF n < 0 THEN -n ELSE n), 0, FALSE)

FNeg(x) ==
    IF IsNaN(x) THEN x ELSE [x EXCEPT !.s = 1 - x.s]

\* Math.abs
FAbs(x) == IF IsNaN(x) THEN x ELSE [x EXCEPT !.s = 0]

\* x * y
FMul(x, y) ==
    IF IsNaN(x) \/ IsNaN(y) THEN NaN
    ELSE IF IsInf(x) \/ IsInf(y)
    THEN IF IsZero(x) \/ IsZero(y) THEN NaN ELSE Inf((x.s + y.s) % 2)
    ELSE Round((x.s + y.s) % 2, BMul(x.m, y.m), x.e + y.e, FALSE)

\* the quotient of the mantissas, sticky when the division left a remainder
RoundQuotient(s, qr, e) == Round(s, qr[1], e, qr[2] # <<>>)

\* x / y for finite numbers that are not zero, the dividend shifted by k
\* bits so that the quotient has more than MantBits + 1 bits
DivFinite(s, x, y, k) ==
    RoundQuotient(s, BDivMod(BShl(x.m, k), y.m), x.e - y.e - k)

\* x / y
FDiv(x, y) ==
    IF IsNaN(x) \/ IsNaN(y) THEN NaN
    ELSE IF IsInf(x) THEN IF IsInf(y) THEN NaN ELSE Inf((x.s + y.s) % 2)
    ELSE IF IsInf(y) THEN Zero((x.s + y.s) % 2)
    ELSE IF IsZero(y)
    THEN IF IsZero(x) THEN NaN ELSE Inf((x.s + y.s) % 2)
    ELSE IF IsZero(x) THEN Zero((x.s + y.s) % 2)
    ELSE DivFinite((x.s + y.s) % 2, x, y, 64 + BBitLen(y.m) - BBitLen(x.m))

\* the magnitudes of two finite numbers compared: -1, 0 or 1
MagCmp(x, y) ==
    IF x.m = <<>> \/ y.m = <<>>
    THEN IF x.m = y.m THEN 0 ELSE IF x.m = <<>> THEN -1 ELSE 1
    ELSE IF x.e + BBitLen(x.m) < y.e + BBitLen(y.m) THEN -1
    ELSE IF x.e + BBitLen(x.m) > y.e + BBitLen(y.m) THEN 1
    ELSE IF x.e >= y.e THEN BCmp(BShl(x.m, x.e - y.e), y.m)
    ELSE BCmp(x.m, BShl(y.m, y.e - x.e))

\* a + b, or a - b for a >= b
AddMant(same, a, b) == IF same THEN BAdd(a, b) ELSE BSub(a, b)

\* big + small for finite numbers that are not zero and do not cancel,
\* big with the larger magnitude; gap is the distance of their last places.
\* Beyond 64 bits, small is below a quarter of the last place of big and
\* counts as a sticky fraction only.
AddFinite(big, small, gap) ==
    IF gap > 64
    THEN Round(big.s,
               AddMant(big.s = small.s, BShl(big.m, 2),
                       IF big.s = small.s THEN <<>> ELSE <<1>>),
               big.e - 2, TRUE)
    ELSE Round(big.s,
               AddMant(big.s = small.s,
                       IF gap >= 0 THEN BShl(big.m, gap) ELSE big.m,
                       IF gap >= 0 THEN small.m ELSE BShl(small.m, -gap)),
               IF gap >= 0 THEN small.e ELSE big.e, FALSE)

\* x + y for finite numbers that are not zero, c comparing their magnitudes
AddOrdered(x, y, c) ==
    IF x.s # y.s /\ c = 0 THEN Zero(0)
    ELSE AddFinite(IF c >= 0 THEN x ELSE y, IF c >= 0 THEN y ELSE x,
                   IF c >= 0 THEN x.e - y.e ELSE y.e - x.e)

\* x + y
FAdd(x, y) ==
    IF IsNaN(x) \/ IsNaN(y) THEN NaN
    ELSE IF IsInf(x) THEN IF IsInf(y) /\ x.s # y.s THEN NaN ELSE x
    ELSE IF IsInf(y) THEN y
    ELSE IF IsZero(x) /\ IsZero(y) THEN Zero(IF x.s = 1 /\ y.s = 1 THEN 1 ELSE 0)
    ELSE IF IsZero(x) THEN y
    ELSE IF IsZero(y) THEN x
    ELSE AddOrdered(x, y, MagCmp(x, y))

\* x - y
FSub(x, y) == FAdd(x, FNeg(y))

\* x < y
FLess(x, y) ==
    IF IsNaN(x) \/ IsNaN(y) THEN FALSE
    ELSE IF IsInf(x) THEN x.s = 1 /\ ~(IsInf(y) /\ y.s = 1)
    ELSE IF IsInf(y) THEN y.s = 0
    ELSE IF IsZero(x) /\ IsZero(y) THEN FALSE
    ELSE IF x.s # y.s THEN x.s = 1
    ELSE (IF x.s = 0 THEN 1 ELSE -1) * MagCmp(x, y) < 0

\* x === y
FEq(x, y) ==
    IF IsNaN(x) \/ IsNaN(y) THEN FALSE
    ELSE IF IsZero(x) /\ IsZero(y) THEN TRUE
    ELSE x = y

\* ======================================================================
\* calculateXIRR (annualizedReturn.js, and the earlier buildCashFlows of
\* part_002)
\* ======================================================================
\* b^n for a natural number b
RECURSIVE BPow(_, _)
BPow(b, n) == IF n = 0 THEN <<1>> ELSE BMul(b, BPow(b, n - 1))

\* the least natural number that is not below the number y >= 0
RECURSIVE WholeFrom(_, _)
WholeFrom(y, n) == IF FLess(FromInt(n), y) THEN WholeFrom(y, n + 1) ELSE n

\* base^n for a natural number n, as the number nearest to the power
PowWhole(base, n) ==
    IF n = 0 THEN FromInt(1)
    ELSE IF IsNaN(base) THEN NaN
    ELSE IF IsInf(base) THEN Inf(IF n % 2 = 1 THEN base.s ELSE 0)
    ELSE IF IsZero(base) THEN Zero(IF n % 2 = 1 THEN base.s ELSE 0)
    ELSE Round(IF n % 2 = 1 THEN base.s ELSE 0, BPow(base.m, n), base.e * n,
               FALSE)

\* Math.pow(base, y) for a whole y >= 0: the flows of the model are whole
\* years apart
Pow(base, y) ==
    PowWhole(base, CHOOSE k \in {WholeFrom(y, 0)} : FEq(FromInt(k), y))

\* 0.1, 0.0001 and 1e-10: the number nearest to the decimal
Guess == FDiv(FromInt(1), FromInt(10))
Tolerance == FDiv(FromInt(1), FromInt(10000))
DerivativeFloor ==
    FDiv(FromInt(1), FMul(FromInt(100000), FromInt(100000)))
MaxIterations == 100

\* Math.abs((date2 - date1) / msPerDay)
DaysBetween(date1, date2) == FAbs(FDiv(FromInt(date2 - date1), FromInt(DayTicks)))

\* daysBetween(firstDate, cf.date) / 365
YearsOf(cashFlows, cf) ==
    FDiv(DaysBetween(cashFlows[1].date, cf.date), FromInt(365))

\* npv += cf.amount / Math.pow(1 + rate, years), for the flows from i on;
\* a sum that is NaN stays NaN whatever is added to it
RECURSIVE NPVFrom(_, _, _, _)
NPVFrom(cashFlows, rate, i, npv) ==
    IF IsNaN(npv) THEN NaN
    ELSE IF i > Len(cashFlows) THEN npv
    ELSE NPVFrom(cashFlows, rate, i + 1,
            FAdd(npv, FDiv(cashFlows[i].amount,
                           Pow(FAdd(FromInt(1), rate),
                               YearsOf(cashFlows, cashFlows[i])))))

CalculateNPV(cashFlows, rate) == NPVFrom(cashFlows, rate, 1, FromInt(0))

\* years * cf.amount / Math.pow(1 + rate, years + 1)
DerivativeTerm(amount, rate, years) ==
    FDiv(FMul(years, amount),
         Pow(FAdd(FromInt(1), rate), FAdd(years, FromInt(1))))

\* derivative -= years * cf.amount / Math.pow(1 + rate, years + 1)
RECURSIVE DerivativeFrom(_, _, _, _)
DerivativeFrom(cashFlows, rate, i, derivative) ==
    IF IsNaN(derivative) THEN NaN
    ELSE IF i > Len(cashFlows) THEN derivative
    ELSE DerivativeFrom(cashFlows, rate, i + 1,
            FSub(derivative,
                 DerivativeTerm(cashFlows[i].amount, rate,
                                YearsOf(cashFlows, cashFlows[i]))))

CalculateDerivative(cashFlows, rate) ==
    DerivativeFrom(cashFlows, rate, 1, FromInt(0))

\* ------------------------------------------------------------ cash flows
Flow(date, amount) == [date |-> date, amount |-> FromInt(amount)]

\* action.includes('funds transfer') || ... || desc.includes('transfer'):
\* the lower-cased texts are modelled by the sets of the phrases they hold
IsTransfer(txn) ==
    \/ txn.action \cap {"funds transfer", "deposit", "withdrawal", "check paid"} # {}
    \/ "transfer" \in txn.description

\* Deposit: investment, negative; withdrawal: return, positive
TransferFlow(txn) ==
    IF txn.amount > 0 THEN Flow(txn.date, -txn.amount)
    ELSE Flow(txn.date, Abs(txn.amount))

RECURSIVE TransferFlows(_)
TransferFlows(sorted) ==
    IF sorted = <<>> THEN <<>>
    ELSE (IF IsTransfer(sorted[1]) THEN <<TransferFlow(sorted[1])>> ELSE <<>>)
            \o TransferFlows(Tail(sorted))

\* the latest cash balance that is a number above 0, or 0: the loop from
\* sorted.length - 1 down
RECURSIVE LatestBalance(_, _)
LatestBalance(sorted, i) ==
    IF i = 0 THEN 0
    ELSE IF sorted[i].hasBalance /\ sorted[i].cashBalance > 0
    THEN sorted[i].cashBalance
    ELSE LatestBalance(sorted, i - 1)

\* buildCashFlows of annualizedReturn.js: the inferred starting balance,
\* the external transfers, the final value
BuildCashFlows(txns, currentValue, today) ==
    LET sorted == SortByDate(txns)
        firstTxn == sorted[1]
        rawStart == IF firstTxn.hasBalance
                    THEN firstTxn.cashBalance - firstTxn.amount ELSE 0
        startBalance == IF rawStart <= 0 THEN 1 ELSE rawStart
        finalValue == IF currentValue = 0
                      THEN LatestBalance(sorted, Len(sorted))
                      ELSE currentValue
    IN  IF sorted = <<>> THEN <<>>
        ELSE <<Flow(firstTxn.date, -Abs(startBalance))>>
                \o TransferFlows(sorted)
                \o (IF finalValue > 0 THEN <<Flow(today, finalValue)>> ELSE <<>>)

\* buildCashFlows of part_002: every BUY, SELL and DIVIDEND is a flow
RECURSIVE TradeFlows(_)
TradeFlows(sorted) ==
    IF sorted = <<>> THEN <<>>
    ELSE LET txn == sorted[1]
             flow == IF txn.transactionType \in {"BUY", "OPTION_BUY_OPEN"}
                     THEN <<Flow(txn.date, -Abs(txn.amount))>>
                     ELSE IF txn.transactionType
                                \in {"SELL", "OPTION_SELL_OPEN", "DIVIDEND"}
                     THEN <<Flow(txn.date, Abs(txn.amount))>>
                     ELSE <<>>
         IN  flow \o TradeFlows(Tail(sorted))

BuildTradeCashFlows(txns, currentValue, today) ==
    TradeFlows(SortByDate(txns))
        \o (IF currentValue > 0 THEN <<Flow(today, currentValue)>> ELSE <<>>)

Policies == {"balance", "trades"}

\* ------------------------------------------------------------ the solver
\* The locals of calculateXIRR and of the newtonXIRR it calls: iterations
\* counts the loop bodies begun, exit names the return taken and result is
\* what calculateXIRR returned.
NoXirr ==
    [pc |-> "idle", cashFlows |-> <<>>, rate |-> Guess, iterations |-> 0,
     exit |-> "none", returned |-> Guess, result |-> FromInt(0)]

\* return 0, newtonXIRR not called
TooFewFlows(cashFlows) ==
    [pc |-> "done", cashFlows |-> cashFlows, rate |-> Guess, iterations |-> 0,
     exit |-> "tooFew", returned |-> Guess, result |-> FromInt(0)]

\* newtonXIRR(cashFlows): let rate = guess
EnterNewton(cashFlows) ==
    [pc |-> "newton", cashFlows |-> cashFlows, rate |-> Guess, iterations |-> 0,
     exit |-> "none", returned |-> Guess, result |-> FromInt(0)]

\* fault: a single flow is enough to run the solver
FewFlowsNone(cashFlows) == cashFlows = <<>>
\* cashFlows.length < 2
FewFlows(cashFlows) == Len(cashFlows) < 2

\* newtonXIRR returns rate and calculateXIRR returns xirr * 100
Return(st, exit, rate) ==
    [st EXCEPT !.pc = "done", !.exit = exit, !.returned = rate,
               !.result = FMul(rate, FromInt(100))]

\* fault: the step is never small enough
StepIsSmallNever(newRate, rate) == FALSE
\* Math.abs(newRate - rate) < tolerance
StepIsSmall(newRate, rate) == FLess(FAbs(FSub(newRate, rate)), Tolerance)

\* fault: the derivative is never too small
DerivativeIsSmallNever(derivative) == FALSE
\* Math.abs(derivative) < 1e-10
DerivativeIsSmall(derivative) == FLess(FAbs(derivative), DerivativeFloor)

\* fault: a small step returns the rate the iteration began with
AdvanceKeepsRate(begun, rate, newRate) ==
    IF IsNaN(newRate) THEN [begun EXCEPT !.rate = NaN]
    ELSE IF StepIsSmall(newRate, rate) THEN Return(begun, "step", rate)
    ELSE [begun EXCEPT !.rate = newRate]

\* the end of the body of the for loop; a comparison with NaN is false
Advance(begun, rate, newRate) ==
    IF IsNaN(newRate) THEN [begun EXCEPT !.rate = NaN]
    ELSE IF StepIsSmall(newRate, rate) THEN Return(begun, "step", newRate)
    ELSE [begun EXCEPT !.rate = newRate]

\* the body of the for loop once npv and derivative are computed
Decide(begun, rate, npv, derivative) ==
    IF DerivativeIsSmall(derivative) THEN Return(begun, "derivative", rate)
    ELSE Advance(begun, rate,
                 IF IsNaN(npv) THEN NaN ELSE FSub(rate, FDiv(npv, derivative)))

\* one body of the for loop
Iterate(st) ==
    Decide([st EXCEPT !.iterations = @ + 1], st.rate,
           CalculateNPV(st.cashFlows, st.rate),
           CalculateDerivative(st.cashFlows, st.rate))

\* --------------------------------------------------------------- actions
Cur == stock.sorted[stock.idx]
InLoop == stock.pc = "loop" /\ stock.idx <= Len(stock.sorted)
CurLots == PositionList(stock.positions, Cur.symbol)

\* calculateGainsLosses is entered: the stock transactions are filtered out
\* and calculateStockGains sets up its locals and sorts its copy.
Start ==
    /\ stock.pc = "start"
    /\ stock' = NewStock(stock, StockTransactions(transactions))
    /\ transactions' = CallerArray(transactions)
    /\ UNCHANGED <<taxStrategy, calls, option, gainsLosses, xirr, appVars>>

ProcessBuy ==
    /\ InLoop
    /\ Cur.transactionType = "BUY"
    /\ stock' = Buy(stock, Cur)
    /\ UNCHANGED <<transactions, taxStrategy, calls, option, gainsLosses, xirr, appVars>>

ProcessOrphanSell ==
    /\ InLoop
    /\ Cur.transactionType = "SELL"
    /\ Len(CurLots) = 0
    /\ stock' = OrphanSell(stock, Cur)
    /\ UNCHANGED <<transactions, taxStrategy, calls, option, gainsLosses, xirr, appVars>>

ProcessSell ==
    /\ InLoop
    /\ Cur.transactionType = "SELL"
    /\ Len(CurLots) # 0
    /\ stock' = BeginSell(stock, Cur)
    /\ UNCHANGED <<transactions, taxStrategy, calls, option, gainsLosses, xirr, appVars>>

SellFromLot ==
    /\ stock.pc = "selling"
    /\ stock.remainingToSell > 0 /\ Len(CurLots) > 0
    /\ stock' = ConsumeLot(stock, Cur, taxStrategy)
    /\ UNCHANGED <<transactions, taxStrategy, calls, option, gainsLosses, xirr, appVars>>

CompleteSell ==
    /\ stock.pc = "selling"
    /\ ~(stock.remainingToSell > 0 /\ Len(CurLots) > 0)
    /\ stock' = FinishSell(stock, Cur)
    /\ UNCHANGED <<transactions, taxStrategy, calls, option, gainsLosses, xirr, appVars>>

\* neither BUY nor SELL: the loop body does nothing
SkipOther ==
    /\ InLoop
    /\ Cur.transactionType \notin {"BUY", "SELL"}
    /\ stock' = [stock EXCEPT !.idx = @ + 1]
    /\ UNCHANGED <<transactions, taxStrategy, calls, option, gainsLosses, xirr, appVars>>

DetectWashSales ==
    /\ stock.pc = "loop"
    /\ stock.idx > Len(stock.sorted)
    /\ stock' = WashSalePass(stock, StockTransactions(transactions))
    /\ UNCHANGED <<transactions, taxStrategy, calls, option, gainsLosses, xirr, appVars>>

\* handleStrategyChange: calculateGainsLosses(results.transactions, newStrategy)
Recalculate(newStrategy) ==
    /\ stock.pc = "done"
    /\ calls < MaxCalls
    /\ taxStrategy' = newStrategy
    /\ calls' = calls + 1
    /\ stock' = NewStock(stock, StockTransactions(transactions))
    /\ transactions' = CallerArray(transactions)
    /\ UNCHANGED <<option, gainsLosses, xirr, appVars>>

Init ==
    /\ \E n \in 0..MaxTxns : transactions \in [1..n -> Transaction]
    /\ taxStrategy \in Strategies
    /\ calls = 1
    /\ stock = NoStock
    /\ option = NoOption
    /\ gainsLosses = Null
    /\ xirr = NoXirr
    /\ AppIdle

Next ==
    \/ Start
    \/ ProcessBuy
    \/ ProcessOrphanSell
    \/ ProcessSell
    \/ SellFromLot
    \/ CompleteSell
    \/ SkipOther
    \/ DetectWashSales

Spec == Init /\ [][Next]_vars

\* calculateStockGains as one function: its steps run to the return
StepStock(st, txns, strategy) ==
    LET cur == st.sorted[st.idx]
        lots == PositionList(st.positions, cur.symbol)
    IN  IF st.pc = "selling"
        THEN IF st.remainingToSell > 0 /\ Len(lots) > 0
             THEN ConsumeLot(st, cur, strategy)
             ELSE FinishSell(st, cur)
        ELSE IF st.idx > Len(st.sorted) THEN WashSalePass(st, txns)
        ELSE IF cur.transactionType = "BUY" THEN Buy(st, cur)
        ELSE IF cur.transactionType = "SELL"
             THEN IF Len(lots) = 0 THEN OrphanSell(st, cur) ELSE BeginSell(st, cur)
        ELSE [st EXCEPT !.idx = @ + 1]

RECURSIVE RunStock(_, _, _)
RunStock(st, txns, strategy) ==
    IF st.pc = "done" THEN st
    ELSE RunStock(StepStock(st, txns, strategy), txns, strategy)

CalculateStockGains(txns, strategy) ==
    StockResults(RunStock(NewStock(NoStock, txns), txns, strategy))

\* The strategy is changed after a result: the sequence is calculated again.
RecalcTransaction == {t \in Transaction : t.date \in {1000, 1001}}

RecalcInit ==
    /\ \E n \in 0..MaxTxns : transactions \in [1..n -> RecalcTransaction]
    /\ taxStrategy \in Strategies
    /\ calls = 1
    /\ stock = NoStock
    /\ option = NoOption
    /\ gainsLosses = Null
    /\ xirr = NoXirr
    /\ AppIdle

RecalcNext == Next \/ \E s \in Strategies : Recalculate(s)

RecalcSpec == RecalcInit /\ [][RecalcNext]_vars

\* Rows of one symbol on three days that follow one another: the input of
\* calculateStockGains in any order of its rows.
ReorderTransaction ==
    {TradeTxn(d, "A", ty, q, pcf) :
        d \in {1000, 1001, 1002}, ty \in {"BUY", "SELL"},
        q \in 1..MaxQty, pcf \in Quotes} \cup DividendTxns

ReorderInit ==
    /\ \E n \in 0..MaxTxns : transactions \in [1..n -> ReorderTransaction]
    /\ taxStrategy \in Strategies
    /\ calls = 1
    /\ stock = NoStock
    /\ option = NoOption
    /\ gainsLosses = Null
    /\ xirr = NoXirr
    /\ AppIdle

ReorderSpec == ReorderInit /\ [][Next]_vars

\* ----------------------------------------------------------------------
\* calculateOptionGains, and the return of calculateGainsLosses
\* ----------------------------------------------------------------------
OptionCur == option.sorted[option.idx]
OptionInLoop == option.pc = "loop" /\ option.idx <= Len(option.sorted)
CurQueue == PositionList(option.optionPositions, OptionCur.symbol)

\* calculateOptionGains(optionTransactions, stockResults.openPositions, ownedSymbols)
StartOptions ==
    /\ stock.pc = "done"
    /\ option.pc = "wait"
    /\ option' = NewOption(OptionTransactions(transactions), stock.positions,
                           OwnedSymbols(transactions))
    /\ UNCHANGED <<transactions, taxStrategy, calls, stock, gainsLosses, xirr, appVars>>

ProcessSellOpen ==
    /\ OptionInLoop
    /\ OptionCur.transactionType = "OPTION_SELL_OPEN"
    /\ option' = SellOpen(option, OptionCur)
    /\ UNCHANGED <<transactions, taxStrategy, calls, stock, gainsLosses, xirr, appVars>>

ProcessBuyOpen ==
    /\ OptionInLoop
    /\ OptionCur.transactionType = "OPTION_BUY_OPEN"
    /\ option' = BuyOpen(option, OptionCur)
    /\ UNCHANGED <<transactions, taxStrategy, calls, stock, gainsLosses, xirr, appVars>>

\* OPTION_BUY_CLOSE or OPTION_SELL_CLOSE on a symbol with open positions
ProcessClose ==
    /\ OptionInLoop
    /\ OptionCur.transactionType \in CloseTypes
    /\ Len(CurQueue) > 0
    /\ option' = BeginClose(option, OptionCur)
    /\ UNCHANGED <<transactions, taxStrategy, calls, stock, gainsLosses, xirr, appVars>>

CloseFromPosition ==
    /\ option.pc = "closing"
    /\ option.remainingToClose > 0 /\ Len(CurQueue) > 0
    /\ option' = ClosePosition(option, OptionCur)
    /\ UNCHANGED <<transactions, taxStrategy, calls, stock, gainsLosses, xirr, appVars>>

CompleteClose ==
    /\ option.pc = "closing"
    /\ ~(option.remainingToClose > 0 /\ Len(CurQueue) > 0)
    /\ option' = IF OptionCur.transactionType = "OPTION_BUY_CLOSE"
                 THEN FinishBuyClose(option, OptionCur)
                 ELSE FinishSellClose(option, OptionCur)
    /\ UNCHANGED <<transactions, taxStrategy, calls, stock, gainsLosses, xirr, appVars>>

ProcessExpired ==
    /\ OptionInLoop
    /\ OptionCur.transactionType = "OPTION_EXPIRED"
    /\ Len(CurQueue) > 0
    /\ option' = Expired(option, OptionCur)
    /\ UNCHANGED <<transactions, taxStrategy, calls, stock, gainsLosses, xirr, appVars>>

ProcessAssigned ==
    /\ OptionInLoop
    /\ OptionCur.transactionType = "OPTION_ASSIGNED"
    /\ Len(CurQueue) > 0
    /\ option' = Assigned(option, OptionCur)
    /\ UNCHANGED <<transactions, taxStrategy, calls, stock, gainsLosses, xirr, appVars>>

\* fault: the trade is pushed outside the test for an open position, so a
\* close of a symbol without open positions is recorded with no proceeds
SkipOptionPushesTrade ==
    /\ OptionInLoop
    /\ OptionCur.transactionType \notin OpenTypes
    /\ ~(/\ OptionCur.transactionType
                \in CloseTypes \cup {"OPTION_EXPIRED", "OPTION_ASSIGNED"}
         /\ Len(CurQueue) > 0)
    /\ option' = [option EXCEPT
                    !.idx = @ + 1,
                    !.trades = IF OptionCur.transactionType \in CloseTypes
                               THEN Append(@, CloseTrade(OptionCur, "BUY_CLOSE",
                                                         "nakedCalls", 0, 0, 0, 0))
                               ELSE @]
    /\ UNCHANGED <<transactions, taxStrategy, calls, stock, gainsLosses, xirr, appVars>>

\* a close, expiry or assignment of a symbol without open positions, or a
\* row of no option type: the loop body does nothing
SkipOption ==
    /\ OptionInLoop
    /\ OptionCur.transactionType \notin OpenTypes
    /\ ~(/\ OptionCur.transactionType
                \in CloseTypes \cup {"OPTION_EXPIRED", "OPTION_ASSIGNED"}
         /\ Len(CurQueue) > 0)
    /\ option' = [option EXCEPT !.idx = @ + 1]
    /\ UNCHANGED <<transactions, taxStrategy, calls, stock, gainsLosses, xirr, appVars>>

\* calculateOptionGains returns, calculateGainsLosses combines and returns,
\* and the App stores the object (setResults)
ReturnGainsLosses ==
    /\ option.pc = "loop"
    /\ option.idx > Len(option.sorted)
    /\ option' = [option EXCEPT !.pc = "done"]
    /\ gainsLosses' = GainsLosses(StockResults(stock), OptionResults(option))
    /\ UNCHANGED <<transactions, taxStrategy, calls, stock, xirr, appVars>>

\* handleStrategyChange with results on display:
\* calculateGainsLosses(results.transactions, newStrategy)
HandleStrategyChange(newStrategy) ==
    /\ gainsLosses # Null
    /\ option.pc = "done"
    /\ calls < MaxCalls
    /\ taxStrategy' = newStrategy
    /\ calls' = calls + 1
    /\ stock' = NewStock(stock, StockTransactions(transactions))
    /\ option' = NoOption
    /\ transactions' = CallerArray(transactions)
    /\ UNCHANGED <<gainsLosses, xirr, appVars>>

\* handleFileUpload: calculateGainsLosses(transactions), taxStrategy = 'FIFO'
OptionInit ==
    /\ \E n \in 0..MaxTxns : transactions \in [1..n -> OptionInput]
    /\ taxStrategy = "FIFO"
    /\ calls = 1
    /\ stock = NoStock
    /\ option = NoOption
    /\ gainsLosses = Null
    /\ xirr = NoXirr
    /\ AppIdle

OptionNext ==
    \/ Next
    \/ StartOptions
    \/ ProcessSellOpen
    \/ ProcessBuyOpen
    \/ ProcessClose
    \/ CloseFromPosition
    \/ CompleteClose
    \/ ProcessExpired
    \/ ProcessAssigned
    \/ SkipOption
    \/ ReturnGainsLosses
    \/ \E s \in Strategies : HandleStrategyChange(s)

OptionSpec == OptionInit /\ [][OptionNext]_vars

\* Rows for which the lot strategy matters (two lots of different cost and
\* a SELL) followed by option rows.  Each engine filters its own rows out
\* of the input, so how the two kinds are interleaved changes nothing.
StrategyStockInput ==
    {t \in MainTxns : /\ t.date = 1001 /\ t.price = 2
                      /\ (t.transactionType = "SELL" => t.quantity = 1)}
        \cup DividendTxns

StrategyOptionInput ==
    {OptionTxn(1001, CallSymbol, "OPTION_SELL_OPEN", 1, 3),
     OptionTxn(1001, CallSymbol, "OPTION_BUY_OPEN", 1, 3),
     OptionTxn(1001, CallSymbol, "OPTION_BUY_CLOSE", 2, 0),
     OptionTxn(1001, CallSymbol, "OPTION_EXPIRED", 1, 0),
     OptionTxn(1001, CallSymbol, "OPTION_ASSIGNED", 1, 0)}

StrategyInit ==
    /\ \E n, m \in 0..MaxTxns :
        \E stockRows \in [1..n -> StrategyStockInput],
           optionRows \in [1..m -> StrategyOptionInput] :
            transactions = stockRows \o optionRows
    /\ taxStrategy = "FIFO"
    /\ calls = 1
    /\ stock = NoStock
    /\ option = NoOption
    /\ gainsLosses = Null
    /\ xirr = NoXirr
    /\ AppIdle

StrategySpec == StrategyInit /\ [][OptionNext]_vars

\* Options opened on one day and closed, expired or assigned more than
\* LongTermDays later, after the stock rows of StrategySpec.
LateDate == 1000 + (LongTermDays + 1) * DayTicks

HoldingOptionInput ==
    {OptionTxn(1000, CallSymbol, "OPTION_SELL_OPEN", 1, 3),
     OptionTxn(1000, CallSymbol, "OPTION_BUY_OPEN", 1, 3),
     OptionTxn(LateDate, CallSymbol, "OPTION_BUY_CLOSE", 2, 0),
     OptionTxn(LateDate, CallSymbol, "OPTION_EXPIRED", 1, 0),
     OptionTxn(LateDate, CallSymbol, "OPTION_ASSIGNED", 1, 0)}

HoldingInit ==
    /\ \E n, m \in 0..MaxTxns :
        \E stockRows \in [1..n -> StrategyStockInput],
           optionRows \in [1..m -> HoldingOptionInput] :
            transactions = stockRows \o optionRows
    /\ taxStrategy = "FIFO"
    /\ calls = 1
    /\ stock = NoStock
    /\ option = NoOption
    /\ gainsLosses = Null
    /\ xirr = NoXirr
    /\ AppIdle

HoldingSpec == HoldingInit /\ [][OptionNext]_vars

\* ------------------------------------------------------------------ XIRR
\* Rows as calculateXIRR reads them: the date, the type, the amount, the
\* phrases of the lower-cased action and description, and the number the
\* cash-balance column parses to, if it does.
XirrTxn(d, ty, amount, action, balance) ==
    [date |-> d, transactionType |-> ty, amount |-> amount,
     action |-> action, description |-> {},
     hasBalance |-> balance >= 0,
     cashBalance |-> IF balance >= 0 THEN balance ELSE 0]

XirrDay == 1000
XirrYear == XirrDay + 365 * DayTicks
Today == XirrDay + 2 * 365 * DayTicks
MaxFlowTxns == 2

XirrInput ==
    {XirrTxn(XirrDay, "BUY", -1000, {"bought"}, -1),
     XirrTxn(XirrYear, "SELL", 1100, {"sold"}, -1),
     XirrTxn(XirrDay, "BUY", -20, {"bought"}, 0),
     XirrTxn(XirrYear, "SELL", 11, {"sold"}, 31),
     XirrTxn(XirrDay, "OTHER", 1000, {"funds transfer"}, -1),
     XirrTxn(XirrYear, "OTHER", -500, {"withdrawal"}, 600)}

CurrentValues == {0, 11, 1100}

XirrInit ==
    /\ transactions \in UNION {[1..n -> XirrInput] : n \in 0..MaxFlowTxns}
    /\ taxStrategy = "FIFO"
    /\ calls = 1
    /\ stock = NoStock
    /\ option = NoOption
    /\ gainsLosses = Null
    /\ xirr = NoXirr
    /\ AppIdle

\* calculateXIRR(transactions, currentValue) up to the loop of newtonXIRR
CalculateXIRR(policy, currentValue) ==
    /\ xirr.pc = "idle"
    /\ LET cashFlows == IF policy = "balance"
                        THEN BuildCashFlows(transactions, currentValue, Today)
                        ELSE BuildTradeCashFlows(transactions, currentValue, Today)
       IN  xirr' = IF FewFlows(cashFlows) THEN TooFewFlows(cashFlows)
                   ELSE EnterNewton(cashFlows)
    /\ UNCHANGED <<transactions, taxStrategy, calls, stock, option, gainsLosses,
                 appVars>>

\* for (let i = 0; i < maxIterations; i++) { ... }
NewtonIteration ==
    /\ xirr.pc = "newton"
    /\ xirr.iterations < MaxIterations
    /\ xirr' = Iterate(xirr)
    /\ UNCHANGED <<transactions, taxStrategy, calls, stock, option, gainsLosses,
                 appVars>>

\* the loop ran maxIterations times: return rate
NewtonExhausted ==
    /\ xirr.pc = "newton"
    /\ xirr.iterations >= MaxIterations
    /\ xirr' = Return(xirr, "exhausted", xirr.rate)
    /\ UNCHANGED <<transactions, taxStrategy, calls, stock, option, gainsLosses,
                 appVars>>

XirrNext ==
    \/ \E policy \in Policies, currentValue \in CurrentValues :
        CalculateXIRR(policy, currentValue)
    \/ NewtonIteration
    \/ NewtonExhausted

XirrSpec == XirrInit /\ [][XirrNext]_vars

\* ------------------------------------------------------------------- App
\* calculateOptionGains as one function: its steps run to the return
StepOption(st) ==
    LET cur == st.sorted[st.idx]
        queue == PositionList(st.optionPositions, cur.symbol)
        type == cur.transactionType
    IN  IF st.pc = "closing"
        THEN IF st.remainingToClose > 0 /\ Len(queue) > 0
             THEN ClosePosition(st, cur)
             ELSE IF type = "OPTION_BUY_CLOSE" THEN FinishBuyClose(st, cur)
             ELSE FinishSellClose(st, cur)
        ELSE IF st.idx > Len(st.sorted) THEN [st EXCEPT !.pc = "done"]
        ELSE IF type = "OPTION_SELL_OPEN" THEN SellOpen(st, cur)
        ELSE IF type = "OPTION_BUY_OPEN" THEN BuyOpen(st, cur)
        ELSE IF type \in CloseTypes /\ Len(queue) > 0 THEN BeginClose(st, cur)
        ELSE IF type = "OPTION_EXPIRED" /\ Len(queue) > 0 THEN Expired(st, cur)
        ELSE IF type = "OPTION_ASSIGNED" /\ Len(queue) > 0 THEN Assigned(st, cur)
        ELSE [st EXCEPT !.idx = @ + 1]

RECURSIVE RunOption(_)
RunOption(st) == IF st.pc = "done" THEN st ELSE RunOption(StepOption(st))

\* calculateGainsLosses(transactions, taxStrategy) as one function
Combine(stockRun, txns) ==
    GainsLosses(StockResults(stockRun),
                OptionResults(RunOption(NewOption(OptionTransactions(txns),
                                                  stockRun.positions,
                                                  OwnedSymbols(txns)))))

CalculateGainsLosses(txns, strategy) ==
    Combine(RunStock(NewStock(NoStock, StockTransactions(txns)),
                     StockTransactions(txns), strategy),
            txns)

\* calculateXIRR(transactions, currentValue) as one function
RECURSIVE RunNewton(_)
RunNewton(st) ==
    IF st.pc = "done" THEN st
    ELSE IF st.iterations < MaxIterations THEN RunNewton(Iterate(st))
    ELSE Return(st, "exhausted", st.rate)

SolveFlows(cashFlows) ==
    IF FewFlows(cashFlows) THEN TooFewFlows(cashFlows).result
    ELSE RunNewton(EnterNewton(cashFlows)).result

AnnualizedReturn(txns, currentValue) ==
    SolveFlows(BuildCashFlows(txns, currentValue, Today))

\* A normalized row with the fields both calculations read; the files have
\* no cash balance column.
AppTxn(d, ty, q, pcf) ==
    [date |-> d, symbol |-> "A", transactionType |-> ty, quantity |-> q,
     price |-> pcf[1], commission |-> pcf[2], fees |-> pcf[3],
     isOption |-> FALSE,
     amount |-> IF ty = "BUY" THEN -(q * pcf[1] + pcf[2] + pcf[3])
                ELSE q * pcf[1] - pcf[2] - pcf[3],
     action |-> IF ty = "BUY" THEN {"bought"} ELSE {"sold"},
     description |-> {}, hasBalance |-> FALSE, cashBalance |-> 0]

\* What parseCSV settles with for a file: resolve({ transactions, source })
\* or reject(error).  Of the first file the lot sold differs between FIFO
\* and LIFO.
Resolved(name, txns, source) ==
    [name |-> name, rejects |-> FALSE, transactions |-> txns,
     source |-> source, message |-> ""]
Rejected(name, message) ==
    [name |-> name, rejects |-> TRUE, transactions |-> <<>>,
     source |-> "", message |-> message]

Files ==
    {Resolved("two-lots.csv",
              <<AppTxn(1000, "BUY", 1, <<2, 0, 1>>),
                AppTxn(1001, "BUY", 1, <<0, 1, 0>>),
                AppTxn(1061, "SELL", 1, <<2, 0, 1>>)>>,
              "fidelity"),
     Resolved("one-lot.csv",
              <<AppTxn(1000, "BUY", 2, <<2, 0, 1>>),
                AppTxn(1001, "SELL", 1, <<2, 0, 1>>)>>,
              "schwab"),
     Rejected("broken.csv", "Failed to process CSV file")}

\* files handed to handleFileUpload over the life of the App
MaxUploads == 2

Pending(i) == parses[i].state = "pending"
AnyPending == \E i \in 1..Len(parses) : Pending(i)

\* handleFileUpload up to its await: setLoading(true), setError(null),
\* parseCSV(file).  FileUpload is rendered while results is null, and its
\* zone takes a file whether loading or not.  overlaps is a history field:
\* an earlier parse was pending when this one began.
HandleFileUpload(file) ==
    /\ results = Null
    /\ Len(parses) < MaxUploads
    /\ loading' = TRUE
    /\ error' = Null
    /\ parses' = Append(parses, [file |-> file, state |-> "pending",
                                 overlaps |-> AnyPending])
    /\ UNCHANGED <<transactions, taxStrategy, calls, stock, option,
                   gainsLosses, xirr, results>>

\* fault: the strategy on display is passed on
UploadStrategySelected == taxStrategy
\* calculateGainsLosses(transactions): the default of the parameter
UploadStrategy == "FIFO"

\* the object handleFileUpload hands to setResults
UploadResults(file) ==
    [transactions |-> file.transactions,
     source |-> file.source,
     gainsLosses |-> CalculateGainsLosses(file.transactions, UploadStrategy),
     annualizedReturn |-> AnnualizedReturn(file.transactions, 0)]

\* the promise of parse i resolves and handleFileUpload runs from its await
\* to its end: setResults({...}), setLoading(false)
ParseResolves(i) ==
    /\ Pending(i)
    /\ ~parses[i].file.rejects
    /\ results' = UploadResults(parses[i].file)
    /\ loading' = FALSE
    /\ parses' = [parses EXCEPT ![i].state = "resolved"]
    /\ UNCHANGED <<transactions, taxStrategy, calls, stock, option,
                   gainsLosses, xirr, error>>

\* the promise rejects: setError(err.message || ...), setLoading(false)
ParseRejects(i) ==
    /\ Pending(i)
    /\ parses[i].file.rejects
    /\ error' = parses[i].file.message
    /\ loading' = FALSE
    /\ parses' = [parses EXCEPT ![i].state = "rejected"]
    /\ UNCHANGED <<transactions, taxStrategy, calls, stock, option,
                   gainsLosses, xirr, results>>

\* handleStrategyChange of the select, which is rendered with the results:
\* setTaxStrategy(newStrategy), setResults(prev => ({ ...prev, gainsLosses }))
ChangeStrategy(newStrategy) ==
    /\ results # Null
    /\ taxStrategy' = newStrategy
    /\ results' = [results EXCEPT
                    !.gainsLosses =
                        CalculateGainsLosses(results.transactions, newStrategy)]
    /\ UNCHANGED <<transactions, calls, stock, option, gainsLosses, xirr,
                   loading, error, parses>>

\* 'Upload New File': setResults(null)
UploadNewFile ==
    /\ results # Null
    /\ results' = Null
    /\ UNCHANGED <<transactions, taxStrategy, calls, stock, option,
                   gainsLosses, xirr, loading, error, parses>>

AppInit ==
    /\ transactions = <<>>
    /\ taxStrategy = "FIFO"
    /\ calls = 1
    /\ stock = NoStock
    /\ option = NoOption
    /\ gainsLosses = Null
    /\ xirr = NoXirr
    /\ AppIdle

AppNext ==
    \/ \E file \in Files : HandleFileUpload(file)
    \/ \E i \in 1..Len(parses) : ParseResolves(i)
    \/ \E i \in 1..Len(parses) : ParseRejects(i)
    \/ \E s \in Strategies : ChangeStrategy(s)
    \/ UploadNewFile

AppSpec == AppInit /\ [][AppNext]_vars

\* ======================================================================
\* Properties
\* ======================================================================
Last(s) == s[Len(s)]
IsOrphanLot(l) == "note" \in DOMAIN l
TotalQuantity(lots) == SumOver(lots, LAMBDA l : l.quantity)
IsTradeTxn(t) == t.transactionType \in {"BUY", "SELL"}

\* quantity x price - commission - fees, in 1/Scale dollars
ProceedsOf(txn) ==
    Scale * txn.quantity * txn.price - Scale * txn.commission - Scale * txn.fees

\* lot i of old gave up units shares, and nothing else changed
Consumed(old, new, i, units) ==
    /\ i \in 1..Len(old)
    /\ units > 0
    /\ \/ units = old[i].quantity /\ new = RemoveAt(old, i)
       \/ /\ units < old[i].quantity
          /\ new = [old EXCEPT ![i].quantity = old[i].quantity - units]

\* a step of the while loop of a SELL, and the step that ends the SELL
LotStep == stock.pc = "selling" /\ stock'.pc = "selling"
EndOfSell == stock.pc = "selling" /\ stock'.pc = "loop"
LotsAfter == PositionList(stock'.positions, Cur.symbol)

\* ---------------------------------------------------------------------
\* C1: a SELL fully covered by open lots has totalCost = the sum of the
\* costs of its lot closures, each closure costing units consumed x the
\* costPerShare of the lot it took them from, and realizedPL =
\* totalProceeds - totalCost with totalProceeds = quantity x price -
\* commission - fees; under FIFO, LIFO and HIFO alike.
C1_Trades ==
    LET txns == SelectSeq(stock.sorted, IsTradeTxn)
    IN  \A k \in 1..Len(stock.trades) :
            LET t == stock.trades[k]
            IN  (t.type = "SELL" /\ \A i \in 1..Len(t.lots) : ~IsOrphanLot(t.lots[i]))
                => /\ t.totalCost = SumOver(t.lots, LAMBDA l : l.cost)
                   /\ t.totalProceeds = ProceedsOf(txns[k])
                   /\ t.realizedPL = t.totalProceeds - t.totalCost
                   /\ TotalQuantity(t.lots) = t.quantity

C1_LotStep ==
    LotStep =>
        LET c == Last(stock'.soldLots)
        IN  /\ stock'.soldLots = Append(stock.soldLots, c)
            /\ \E i \in 1..Len(CurLots) :
                /\ Consumed(CurLots, LotsAfter, i, c.quantity)
                /\ c.cost = c.quantity * CurLots[i].costPerShare
                /\ c.date = CurLots[i].date

\* C1: totalCost of a covered SELL is the sum of its closures' costs
\* (units x costPerShare of the lot) and realizedPL = totalProceeds - totalCost.
C1_CoveredSellCost == []C1_Trades /\ [][C1_LotStep]_vars

C1_Witness ==
    /\ stock.pc = "done"
    /\ \E k \in 1..Len(stock.trades) :
        LET t == stock.trades[k]
        IN  /\ t.type = "SELL"
            /\ Len(t.lots) = 2
            /\ \A i \in 1..Len(t.lots) : ~IsOrphanLot(t.lots[i])
            /\ t.lots[1].cost # t.lots[2].cost
            /\ t.realizedPL < 0
            /\ Len(PositionList(stock.positions, t.symbol)) = 1

\* ---------------------------------------------------------------------
\* C2: under FIFO every lot a SELL consumes is lot 1 of the symbol's list,
\* no open lot of the symbol has an earlier date, and the open lots are the
\* most recent BUYs of the symbol in processing order, which is date order
\* with the source order kept among equal dates.
IsStableSortOf(sorted, txns) ==
    /\ Len(sorted) = Len(txns)
    /\ \E p \in [1..Len(txns) -> 1..Len(txns)] :
        /\ \A i, j \in 1..Len(txns) : i # j => p[i] # p[j]
        /\ \A i \in 1..Len(txns) : sorted[i] = txns[p[i]]
        /\ \A i, j \in 1..Len(txns) :
            i < j => \/ sorted[i].date < sorted[j].date
                     \/ sorted[i].date = sorted[j].date /\ p[i] < p[j]

ProcessedBuys(symbol) ==
    SelectSeq(SubSeq(stock.sorted, 1, stock.idx - 1),
              LAMBDA t : t.transactionType = "BUY" /\ t.symbol = symbol)

C2_FifoStep ==
    (taxStrategy = "FIFO" /\ LotStep) =>
        LET c == Last(stock'.soldLots)
            buys == ProcessedBuys(Cur.symbol)
            k == Len(buys) - Len(CurLots)
        IN  /\ Consumed(CurLots, LotsAfter, 1, c.quantity)
            /\ c.date = CurLots[1].date
            /\ \A j \in 1..Len(CurLots) : CurLots[1].date <= CurLots[j].date
            /\ IsStableSortOf(stock.sorted, StockTransactions(transactions))
            /\ k >= 0
            /\ \A i \in 1..Len(CurLots) :
                /\ CurLots[i].date = buys[k + i].date
                /\ CurLots[i].quantity <= buys[k + i].quantity
                /\ i > 1 => CurLots[i].quantity = buys[k + i].quantity

\* C2: under FIFO a SELL always consumes the earliest-acquired open lot.
C2_FifoEarliestFirst == [][C2_FifoStep]_vars

C2_Witness ==
    /\ taxStrategy = "FIFO"
    /\ stock.pc = "selling"
    /\ Len(stock.lotsAtSell) = 2
    /\ stock.lotsAtSell[1].date = stock.lotsAtSell[2].date
    /\ stock.lotsAtSell[1] # stock.lotsAtSell[2]
    /\ Len(stock.soldLots) = 2

\* ---------------------------------------------------------------------
\* C3: under LIFO every lot a SELL consumes is the last lot of the symbol's
\* list and no open lot of the symbol has a later date.
C3_LifoStep ==
    (taxStrategy = "LIFO" /\ LotStep) =>
        LET c == Last(stock'.soldLots)
            n == Len(CurLots)
        IN  /\ Consumed(CurLots, LotsAfter, n, c.quantity)
            /\ c.date = CurLots[n].date
            /\ \A j \in 1..n : CurLots[j].date <= CurLots[n].date

\* C3: under LIFO a SELL always consumes the latest-acquired open lot.
C3_LifoLatestFirst == [][C3_LifoStep]_vars

C3_Witness ==
    /\ taxStrategy = "LIFO"
    /\ stock.pc = "selling"
    /\ Len(stock.lotsAtSell) = 2
    /\ stock.lotsAtSell[1].date < stock.lotsAtSell[2].date
    /\ Len(stock.soldLots) = 1
    /\ stock.soldLots[1].date = stock.lotsAtSell[2].date
    /\ CurLots = <<stock.lotsAtSell[1]>>

\* ---------------------------------------------------------------------
\* C4: under HIFO every lot a SELL consumes has a costPerShare no lower
\* than that of any open lot of the symbol, and strictly higher than that
\* of every lot before it in the list.
C4_HifoStep ==
    (taxStrategy = "HIFO" /\ LotStep) =>
        LET c == Last(stock'.soldLots)
        IN  \E i \in 1..Len(CurLots) :
                /\ Consumed(CurLots, LotsAfter, i, c.quantity)
                /\ c.date = CurLots[i].date
                /\ c.cost = c.quantity * CurLots[i].costPerShare
                /\ \A j \in 1..Len(CurLots) :
                    CurLots[j].costPerShare <= CurLots[i].costPerShare
                /\ \A j \in 1..(i - 1) :
                    CurLots[j].costPerShare < CurLots[i].costPerShare

\* C4: under HIFO a SELL always consumes the first lot of highest costPerShare.
C4_HifoHighestFirst == [][C4_HifoStep]_vars

\* two lots share the highest costPerShare and the first of them was taken
C4_Witness ==
    /\ taxStrategy = "HIFO"
    /\ stock.pc = "selling"
    /\ Len(stock.lotsAtSell) = 2
    /\ stock.lotsAtSell[1].costPerShare = stock.lotsAtSell[2].costPerShare
    /\ stock.lotsAtSell[1].date # stock.lotsAtSell[2].date
    /\ Len(stock.soldLots) = 1
    /\ CurLots = <<stock.lotsAtSell[2]>>

\* ---------------------------------------------------------------------
\* C5: a call leaves the caller's transaction sequence as it was, and a
\* call made after another one (with the same or another strategy) returns
\* what a first call with its strategy returns on that sequence: no lot or
\* position state of the earlier call is left.
C5_SameResult ==
    stock.pc = "done" =>
        StockResults(stock)
            = CalculateStockGains(StockTransactions(transactions), taxStrategy)

C5_InputKept == transactions' = transactions

OrphanCase ==
    /\ InLoop
    /\ Cur.transactionType = "SELL"
    /\ PositionList(stock.positions, Cur.symbol) = <<>>

C6_OrphanStep ==
    OrphanCase =>
        LET t == Last(stock'.trades)
        IN  /\ stock'.trades = Append(stock.trades, t)
            /\ t.type = "SELL" /\ t.symbol = Cur.symbol
            /\ t.quantity = Cur.quantity /\ t.date = Cur.date
            /\ t.totalCost = 0
            /\ t.totalProceeds = ProceedsOf(Cur)
            /\ t.realizedPL = ProceedsOf(Cur)
            /\ t.term = "LONG"
            /\ Len(t.lots) = 1
            /\ IsOrphanLot(t.lots[1])
            /\ t.lots[1].note = "Missing buy history - Assumed Long Term"
            /\ t.lots[1].quantity = Cur.quantity
            /\ t.lots[1].term = "LONG"
            /\ stock'.positions = stock.positions
            /\ stock'.pc = "loop" /\ stock'.idx = stock.idx + 1

\* C6: a SELL without open lots is always processed, as a zero-cost LONG
\* trade with one noted lot record, and creates no lot.
C6_OrphanSell == [](OrphanCase => ENABLED Next) /\ [][C6_OrphanStep]_vars

\* an orphan SELL of a symbol whose earlier lots were all consumed
C6_Witness ==
    /\ stock.trades # <<>>
    /\ Last(stock.trades).type = "SELL"
    /\ Len(Last(stock.trades).lots) = 1
    /\ IsOrphanLot(Last(stock.trades).lots[1])
    /\ Last(stock.trades).symbol \in DOMAIN stock.positions
    /\ Last(stock.trades).realizedPL < 0

\* ---------------------------------------------------------------------
\* C7: when a SELL's quantity exceeds the total quantity of the symbol's
\* open lots, every open lot is consumed and the shortfall is one more lot
\* closure of the same trade, with cost 0, term LONG and proceeds =
\* (shortfall / sell quantity) x totalProceeds; the closures' quantities
\* sum to the sell quantity and the symbol's lot list is left empty.
C7_ShortfallStep ==
    (EndOfSell /\ Len(stock.lotsAtSell) > 0
               /\ Cur.quantity > TotalQuantity(stock.lotsAtSell)) =>
        LET t == Last(stock'.trades)
            o == Last(t.lots)
            shortfall == Cur.quantity - TotalQuantity(stock.lotsAtSell)
        IN  /\ stock'.trades = Append(stock.trades, t)
            /\ t.type = "SELL" /\ t.quantity = Cur.quantity
            /\ t.lots = Append(stock.soldLots, o)
            /\ Len(stock.soldLots) = Len(stock.lotsAtSell)
            /\ TotalQuantity(stock.soldLots) = TotalQuantity(stock.lotsAtSell)
            /\ \A i \in 1..Len(stock.soldLots) : ~IsOrphanLot(stock.soldLots[i])
            /\ IsOrphanLot(o)
            /\ o.quantity = shortfall
            /\ o.cost = 0
            /\ o.term = "LONG"
            /\ o.proceeds * Cur.quantity = shortfall * t.totalProceeds
            /\ t.totalProceeds = ProceedsOf(Cur)
            /\ t.totalCost = SumOver(stock.soldLots, LAMBDA l : l.cost)
            /\ TotalQuantity(t.lots) = Cur.quantity
            /\ Cur.symbol \in DOMAIN stock'.positions
            /\ stock'.positions[Cur.symbol] = <<>>

\* C7: a shortfall is folded into the SELL trade as one zero-cost LONG
\* closure with pro-rated proceeds, after every open lot was consumed.
C7_PartialOrphan == [][C7_ShortfallStep]_vars

C7_Witness ==
    /\ stock.pc = "loop"
    /\ stock.trades # <<>>
    /\ Last(stock.trades).type = "SELL"
    /\ Len(Last(stock.trades).lots) = 2
    /\ IsOrphanLot(Last(stock.trades).lots[2])
    /\ Last(stock.trades).lots[2].proceeds * 2 = Last(stock.trades).totalProceeds
    /\ Last(stock.trades).lots[2].proceeds # 0

\* ---------------------------------------------------------------------
\* C8: a SELL trade with lot closures is LONG if all of them are LONG,
\* SHORT if all are SHORT and MIXED otherwise; a closure of a lot is LONG
\* exactly when ceil(|sellDate - buyDate| / 1 day) > 365, and an orphan
\* shortfall is a LONG closure.
\* C8: the term of a SELL trade follows from the terms of its closures,
\* and a closure is LONG exactly when held more than 365 days (rounded up).
C8_TermOfTrades ==
    \A k \in 1..Len(stock.trades) :
        LET t == stock.trades[k]
        IN  (t.type = "SELL" /\ Len(t.lots) > 0) =>
            LET terms == {t.lots[i].term : i \in 1..Len(t.lots)}
            IN  /\ terms \subseteq {"LONG", "SHORT"}
                /\ terms = {"LONG"} => t.term = "LONG"
                /\ terms = {"SHORT"} => t.term = "SHORT"
                /\ terms = {"LONG", "SHORT"} => t.term = "MIXED"
                /\ \A i \in 1..Len(t.lots) :
                    LET l == t.lots[i]
                        d == Abs(t.date - l.date)
                    IN  IF IsOrphanLot(l) THEN l.term = "LONG"
                        ELSE /\ l.daysHeld * DayTicks >= d
                             /\ (l.daysHeld - 1) * DayTicks < d
                             /\ (l.term = "LONG") = (l.daysHeld > 365)

\* one lot held 365.5 days (LONG) and one held exactly 365 days (SHORT)
C8_Witness ==
    \E k \in 1..Len(stock.trades) :
        LET t == stock.trades[k]
        IN  /\ t.type = "SELL"
            /\ t.term = "MIXED"
            /\ Len(t.lots) = 2
            /\ ~IsOrphanLot(t.lots[1]) /\ ~IsOrphanLot(t.lots[2])
            /\ \E i \in 1..2 : t.lots[i].daysHeld = 365 /\ t.lots[i].term = "SHORT"
            /\ \E i \in 1..2 : /\ t.lots[i].daysHeld = 366
                               /\ t.lots[i].term = "LONG"
                               /\ Abs(t.date - t.lots[i].date) < 366 * DayTicks

\* ---------------------------------------------------------------------
\* C9: after the wash-sale pass a SELL trade is flagged if and only if its
\* realizedPL is negative and the input holds a BUY of its symbol, other
\* than the buys whose lots the trade consumed, dated within 30 days of
\* the sell date.  (A closure consumes one lot, so the buys of one date
\* that the trade did not consume are those in excess of its closures of
\* that date.)
IsWashSale(t) == "isWashSale" \in DOMAIN t /\ t.isWashSale

BuysOn(symbol, date) ==
    Cardinality({i \in 1..Len(transactions) :
        /\ ~transactions[i].isOption
        /\ transactions[i].transactionType = "BUY"
        /\ transactions[i].symbol = symbol
        /\ transactions[i].date = date})

ClosuresOn(t, date) ==
    Cardinality({i \in 1..Len(t.lots) :
        ~IsOrphanLot(t.lots[i]) /\ t.lots[i].date = date})

HasReplacementBuy(t) ==
    \E i \in 1..Len(transactions) :
        LET d == transactions[i].date
        IN  /\ Abs(d - t.date) <= 30 * DayTicks
            /\ BuysOn(t.symbol, d) > ClosuresOn(t, d)

\* C9: a SELL is flagged if and only if it is a loss and a same-symbol BUY
\* it did not consume lies within 30 days.
C9_WashSaleIff ==
    stock.pc = "done" =>
        \A k \in 1..Len(stock.trades) :
            LET t == stock.trades[k]
            IN  t.type = "SELL" =>
                    (IsWashSale(t) <=> (t.realizedPL < 0 /\ HasReplacementBuy(t)))

\* ---------------------------------------------------------------------
\* C10: the wash-sale pass adds the flag and the note to the trades it
\* flags and changes nothing else: every field of every trade, the
\* gain/loss totals, the term totals and every open lot stay as they were.
WashPassStep == stock.pc = "loop" /\ stock'.pc = "done"

C10_WashStep ==
    WashPassStep =>
        /\ Len(stock'.trades) = Len(stock.trades)
        /\ \A k \in 1..Len(stock.trades) :
            LET t == stock.trades[k]
                u == stock'.trades[k]
            IN  /\ \A f \in DOMAIN t : f \in DOMAIN u /\ u[f] = t[f]
                /\ DOMAIN u \subseteq DOMAIN t \cup {"isWashSale", "washSaleMsg"}
                /\ ~IsWashSale(u) => u = t
        /\ stock'.positions = stock.positions
        /\ stock'.totalRealizedGains = stock.totalRealizedGains
        /\ stock'.totalRealizedLosses = stock.totalRealizedLosses
        /\ stock'.shortTermGains = stock.shortTermGains
        /\ stock'.shortTermLosses = stock.shortTermLosses
        /\ stock'.longTermGains = stock.longTermGains
        /\ stock'.longTermLosses = stock.longTermLosses

\* C10: the wash-sale pass changes nothing but the flag and note of the
\* trades it flags.
C10_WashPassAdvisory == [][C10_WashStep]_vars

\* a flagged losing trade, next to an open lot
C10_Witness ==
    /\ stock.pc = "done"
    /\ \E k \in 1..Len(stock.trades) :
        /\ IsWashSale(stock.trades[k])
        /\ stock.trades[k].realizedPL < 0
        /\ Len(PositionList(stock.positions, stock.trades[k].symbol)) > 0

\* ---------------------------------------------------------------------
\* C11: in every state reached while the stock and the option transactions
\* are processed, under every lot strategy, every tax lot of every symbol
\* and every open option position of every option symbol has a quantity
\* that is not negative.
AllLots ==
    UNION {{stock.positions[s][i] : i \in 1..Len(stock.positions[s])} :
            s \in DOMAIN stock.positions}
AllOptionPositions ==
    UNION {{option.optionPositions[s][i] : i \in 1..Len(option.optionPositions[s])} :
            s \in DOMAIN option.optionPositions}

\* C11: no tax lot and no open option position ever has a negative quantity.
C11_QuantitiesNeverNegative ==
    /\ \A lot \in AllLots : lot.quantity >= 0
    /\ \A position \in AllOptionPositions : position.quantity >= 0

\* a close has just taken part of an option position, next to an open lot
C11_Witness ==
    /\ option.pc = "closing"
    /\ Len(option.closed) = 1
    /\ option.closed[1].quantity < option.closed[1].position.quantity
    /\ CurQueue # <<>>
    /\ CurQueue[1].quantity
        = option.closed[1].position.quantity - option.closed[1].quantity
    /\ AllLots # {}
    /\ taxStrategy # "FIFO"

\* ---------------------------------------------------------------------
\* C12: no lot of quantity 0 is ever kept in a symbol's lot list; a step of
\* a SELL removes the lot it selected when the lot holds no more than what
\* remains to sell and otherwise reduces that lot's quantity in place; in
\* both cases every other lot keeps its place and content, so that the
\* lots of a symbol are always, in order, lots of the BUYs processed so far.
IsLotOf(lot, buy) ==
    /\ lot.date = buy.date
    /\ lot.quantity <= buy.quantity
    /\ lot.costPerShare * buy.quantity
        = Scale * (buy.price * buy.quantity + buy.commission + buy.fees)

\* lots are, in order, lots of some of the buys
RECURSIVE Embeds(_, _)
Embeds(lots, buys) ==
    IF lots = <<>> THEN TRUE
    ELSE IF buys = <<>> THEN FALSE
    ELSE IF IsLotOf(Head(lots), Head(buys))
         THEN Embeds(Tail(lots), Tail(buys))
         ELSE Embeds(lots, Tail(buys))

C12_Lots ==
    /\ \A lot \in AllLots : lot.quantity # 0
    /\ stock.pc # "start" =>
        \A s \in Symbols :
            Embeds(PositionList(stock.positions, s), ProcessedBuys(s))

C12_Step ==
    LotStep =>
        /\ \E i \in 1..Len(CurLots) :
            IF CurLots[i].quantity > stock.remainingToSell
            THEN LotsAfter = [CurLots EXCEPT ![i].quantity = @ - stock.remainingToSell]
            ELSE LotsAfter = SubSeq(CurLots, 1, i - 1)
                             \o SubSeq(CurLots, i + 1, Len(CurLots))
        /\ \A s \in DOMAIN stock.positions :
            s # Cur.symbol => stock'.positions[s] = stock.positions[s]

Reorderings(n) ==
    {p \in [1..n -> 1..n] : \A i, j \in 1..n : i # j => p[i] # p[j]}

Permute(txns, p) == [i \in 1..Len(txns) |-> txns[p[i]]]

PairwiseDifferentDates(txns) ==
    \A i, j \in 1..Len(txns) : i # j => txns[i].date # txns[j].date

C13_Order ==
    stock.pc # "start" =>
        /\ IsStableSortOf(stock.sorted, StockTransactions(transactions))
        /\ \A k, l \in 1..Len(stock.trades) :
            k < l => stock.trades[k].date <= stock.trades[l].date

C13_Reorder ==
    (stock.pc = "done" /\ PairwiseDifferentDates(transactions)) =>
        \A p \in Reorderings(Len(transactions)) :
            LET other == CalculateStockGains(
                            StockTransactions(Permute(transactions, p)), taxStrategy)
            IN  /\ other.trades = stock.trades
                /\ other.openPositions = stock.positions

\* C13: processing is in stable date order, so reordering an input of
\* pairwise different dates changes neither the trades nor the open positions.
C13_ProcessingOrder == C13_Order /\ C13_Reorder

\* ---------------------------------------------------------------------
\* C14: an OPTION_SELL_OPEN row opens a SHORT position and emits a trade
\* classified coveredCalls when its symbol is a call and cashSecuredPuts
\* when it is a put, an OPTION_BUY_OPEN row a LONG position and a trade
\* classified longCalls or longPuts, whatever shares of the underlying are
\* open and whatever symbols are in the ownership evidence; no position and
\* no trade is ever classified nakedCalls, and the nakedCalls aggregate
\* stays as it was created.
IsCall(symbol) == symbol.cp = "C"

OpenStrategy(type, symbol) ==
    IF type \in {"OPTION_SELL_OPEN", "SELL_OPEN"}
    THEN IF IsCall(symbol) THEN "coveredCalls" ELSE "cashSecuredPuts"
    ELSE IF IsCall(symbol) THEN "longCalls" ELSE "longPuts"

C14_Classified ==
    /\ \A s \in DOMAIN option.optionPositions :
        \A i \in 1..Len(option.optionPositions[s]) :
            LET position == option.optionPositions[s][i]
            IN  /\ position.type \in {"SHORT", "LONG"}
                /\ position.strategy
                    = OpenStrategy(IF position.type = "SHORT" THEN "SELL_OPEN"
                                   ELSE "BUY_OPEN", s)
    /\ \A k \in 1..Len(option.trades) :
        LET t == option.trades[k]
        IN  /\ t.strategy # "nakedCalls"
            /\ t.type \in {"SELL_OPEN", "BUY_OPEN"} =>
                    t.strategy = OpenStrategy(t.type, t.symbol)
    /\ LET naked == option.strategyResults["nakedCalls"]
       IN  /\ naked.premiumCollected = 0 /\ naked.premiumRetained = 0
           /\ naked.premiumLost = 0 /\ naked.tradesCount = 0
           /\ naked.trades = <<>> /\ naked.nanFields = {}
    /\ gainsLosses # Null =>
        LET naked == gainsLosses.optionResults.strategySummary["nakedCalls"]
        IN  /\ naked.premiumCollected = 0 /\ naked.premiumRetained = 0
            /\ naked.premiumLost = 0 /\ naked.tradesCount = 0
            /\ naked.trades = <<>> /\ naked.netPL = 0

C14_OpenStep ==
    (OptionInLoop /\ OptionCur.transactionType \in OpenTypes) =>
        LET t == Last(option'.trades)
            queue == PositionList(option'.optionPositions, OptionCur.symbol)
            strategy == OpenStrategy(OptionCur.transactionType, OptionCur.symbol)
        IN  /\ option'.trades = Append(option.trades, t)
            /\ t.type = IF OptionCur.transactionType = "OPTION_SELL_OPEN"
                        THEN "SELL_OPEN" ELSE "BUY_OPEN"
            /\ t.symbol = OptionCur.symbol
            /\ t.strategy = strategy
            /\ queue = Append(CurQueue, Last(queue))
            /\ Last(queue).strategy = strategy
            /\ Last(queue).type = IF OptionCur.transactionType = "OPTION_SELL_OPEN"
                                  THEN "SHORT" ELSE "LONG"
            /\ Last(queue).quantity = OptionCur.quantity

\* C14: opens are classified by side and option type alone, and nothing is
\* ever classified nakedCalls.
C14_OpenClassification == []C14_Classified /\ [][C14_OpenStep]_vars

\* a call was sold to open with no share of the underlying open and no
\* ownership evidence, and is held as a covered call
C14_Witness ==
    /\ option.pc = "loop"
    /\ option.ownedSymbols = {}
    /\ GetSharesOwned(option.stockPositions, "A") = 0
    /\ \E s \in DOMAIN option.optionPositions :
        /\ IsCall(s)
        /\ \E i \in 1..Len(option.optionPositions[s]) :
            /\ option.optionPositions[s][i].type = "SHORT"
            /\ option.optionPositions[s][i].strategy = "coveredCalls"

\* ---------------------------------------------------------------------
\* C15: when calculateGainsLosses is called again on the same transactions
\* with any lot strategy, the trades, strategySummary, winRate,
\* totalRealizedGains and totalRealizedLosses of its option results are
\* those of the call before (which the App made with FIFO), also when the
\* stock results and the open lots handed to calculateOptionGains differ.
OptionView(r) ==
    [trades |-> r.trades, strategySummary |-> r.strategySummary,
     winRate |-> r.winRate, totalRealizedGains |-> r.totalRealizedGains,
     totalRealizedLosses |-> r.totalRealizedLosses]

C15_ReturnStep ==
    (gainsLosses # Null /\ option.pc = "loop" /\ option'.pc = "done") =>
        /\ gainsLosses' # Null
        /\ OptionView(gainsLosses'.optionResults)
            = OptionView(gainsLosses.optionResults)

\* C15: the option results are the same under FIFO, LIFO and HIFO.
C15_OptionsIgnoreLotStrategy == [][C15_ReturnStep]_vars

\* a second call, under another strategy, has returned: its stock trades
\* and the open lots its option engine was given differ from the first
\* call's, and a close consumed an option position
C15_Witness ==
    /\ calls = 2
    /\ taxStrategy # "FIFO"
    /\ option.pc = "done"
    /\ gainsLosses # Null
    /\ gainsLosses.stockResults = StockResults(stock)
    /\ gainsLosses.stockResults
        # CalculateStockGains(StockTransactions(transactions), "FIFO")
    /\ option.stockPositions
        # CalculateStockGains(StockTransactions(transactions), "FIFO").openPositions
    /\ \E k \in 1..Len(option.trades) : IsClosingTrade(option.trades[k])

\* ---------------------------------------------------------------------
\* C16: every iteration of a BUY_CLOSE or SELL_CLOSE takes its contracts
\* from position 1 of the closed symbol's queue, removing it when it holds
\* no more than what remains to close and reducing it otherwise; so what a
\* close leaves of the queue it found is a tail of it whose first position
\* alone may be reduced, the positions of a queue are in opening order, and
\* the queues of all other option symbols stay as they were.
CloseStep == option.pc = "closing" /\ option'.pc = "closing"
EndOfClose == option.pc = "closing" /\ option'.pc = "loop"
QueueAfter == PositionList(option'.optionPositions, OptionCur.symbol)

OtherQueuesKept ==
    \A s \in DOMAIN option.optionPositions :
        s # OptionCur.symbol
            => /\ s \in DOMAIN option'.optionPositions
               /\ option'.optionPositions[s] = option.optionPositions[s]

\* left is a tail of found, with at most its first position reduced
IsTailOf(left, found) ==
    LET k == Len(found) - Len(left)
    IN  /\ k >= 0
        /\ \A i \in 1..Len(left) :
            IF i = 1
            THEN /\ left[1].quantity <= found[k + 1].quantity
                 /\ left[1].quantity > 0
                 /\ [left[1] EXCEPT !.quantity = found[k + 1].quantity] = found[k + 1]
            ELSE left[i] = found[k + i]

C16_Step ==
    /\ CloseStep =>
        LET c == Last(option'.closed)
        IN  /\ option'.closed = Append(option.closed, c)
            /\ c.position = CurQueue[1]
            /\ Consumed(CurQueue, QueueAfter, 1, c.quantity)
            /\ OtherQueuesKept
    /\ EndOfClose =>
        /\ option'.optionPositions = option.optionPositions
        /\ IsTailOf(CurQueue, option.queueAtClose)
        /\ CurQueue # <<>> =>
            /\ option.remainingToClose = 0
            /\ TotalQuantity(option.queueAtClose) - TotalQuantity(CurQueue)
                = OptionCur.quantity
    /\ (OptionInLoop /\ OptionCur.transactionType \in CloseTypes) =>
        option'.optionPositions = option.optionPositions

C16_OpeningOrder ==
    \A s \in DOMAIN option.optionPositions :
        \A i, j \in 1..Len(option.optionPositions[s]) :
            i < j => option.optionPositions[s][i].date
                        <= option.optionPositions[s][j].date

\* C16: a close consumes the closed symbol's queue strictly from the front
\* and leaves every other symbol's queue unchanged.
C16_ClosesFromFront == []C16_OpeningOrder /\ [][C16_Step]_vars

\* a close of two contracts found two different positions, took the whole
\* of the older and then part of the newer, which stays at the front
C16_Witness ==
    /\ option.pc = "closing"
    /\ Len(option.queueAtClose) = 2
    /\ option.queueAtClose[1].date < option.queueAtClose[2].date
    /\ option.queueAtClose[2].quantity = 2
    /\ Len(option.closed) = 2
    /\ option.closed[1].position = option.queueAtClose[1]
    /\ option.closed[2].position = option.queueAtClose[2]
    /\ option.closed[2].quantity = 1
    /\ Len(CurQueue) = 1
    /\ CurQueue[1].quantity = 1

\* ---------------------------------------------------------------------
\* C17: a position keeps the side and the strategy it was opened with as
\* long as it is in its queue, and the trade a BUY_CLOSE, SELL_CLOSE,
\* EXPIRED or ASSIGNED row emits carries the strategy of every position
\* the row consumed, also when a close consumed several positions.
EndStep ==
    /\ OptionInLoop
    /\ OptionCur.transactionType \in {"OPTION_EXPIRED", "OPTION_ASSIGNED"}
    /\ CurQueue # <<>>

SameSideAndStrategy(p, q) == p.type = q.type /\ p.strategy = q.strategy

C17_Step ==
    /\ CloseStep =>
        \A i \in 1..Len(QueueAfter) :
            SameSideAndStrategy(QueueAfter[i],
                                CurQueue[Len(CurQueue) - Len(QueueAfter) + i])
    /\ EndOfClose =>
        \A i \in 1..Len(option.closed) :
            Last(option'.trades).strategy = option.closed[i].position.strategy
    /\ EndStep =>
        /\ Last(option'.trades).strategy = CurQueue[1].strategy
        /\ QueueAfter = Tail(CurQueue)

\* C17: side and strategy are fixed at open time and every closing trade
\* carries the strategy of every position it consumed.
C17_StrategyPropagates == [][C17_Step]_vars

\* ---------------------------------------------------------------------
\* C18: every iteration of a BUY_CLOSE takes its contracts from a SHORT
\* position and every iteration of a SELL_CLOSE from a LONG one, also when
\* short and long positions of one option symbol are open together.
C18_Step ==
    CloseStep =>
        Last(option'.closed).position.type
            = IF OptionCur.transactionType = "OPTION_BUY_CLOSE"
              THEN "SHORT" ELSE "LONG"

\* C18: BUY_CLOSE consumes only SHORT positions, SELL_CLOSE only LONG ones.
C18_ClosesMatchSide == [][C18_Step]_vars

\* ---------------------------------------------------------------------
\* C19: a position is opened with premiumPerContract = premium of the open
\* / contracts opened and keeps it while contracts of it stay open; the
\* trade of a BUY_CLOSE has realizedPL = (sum, over the positions its
\* iterations consumed, of contracts consumed x premiumPerContract) -
\* premium paid to close, and the trade of a SELL_CLOSE has realizedPL =
\* premium received at close - that sum.
PremiumOf(txn) == Scale * Abs(txn.amount)

OpenedPremium(closed) ==
    SumOver(closed, LAMBDA c : c.quantity * c.position.premiumPerContract)

C19_Step ==
    /\ (OptionInLoop /\ OptionCur.transactionType \in OpenTypes) =>
        /\ QueueAfter = Append(CurQueue, Last(QueueAfter))
        /\ Last(QueueAfter).quantity = OptionCur.quantity
        /\ Last(QueueAfter).premiumPerContract * OptionCur.quantity
            = PremiumOf(OptionCur)
    /\ CloseStep =>
        LET c == Last(option'.closed)
        IN  /\ option'.closed = Append(option.closed, c)
            /\ c.position = CurQueue[1]
            /\ Consumed(CurQueue, QueueAfter, 1, c.quantity)
            /\ c.quantity < c.position.quantity =>
                QueueAfter[1].premiumPerContract = c.position.premiumPerContract
    /\ EndOfClose =>
        LET t == Last(option'.trades)
        IN  /\ option'.trades = Append(option.trades, t)
            /\ IF OptionCur.transactionType = "OPTION_BUY_CLOSE"
               THEN /\ t.type = "BUY_CLOSE"
                    /\ t.realizedPL
                        = OpenedPremium(option.closed) - PremiumOf(OptionCur)
               ELSE /\ t.type = "SELL_CLOSE"
                    /\ t.realizedPL
                        = PremiumOf(OptionCur) - OpenedPremium(option.closed)

\* C19: the realizedPL of a close is the premium of the contracts it
\* consumed, at each position's premiumPerContract, against the premium
\* of the close, and a reduced position keeps its premiumPerContract.
C19_PremiumConserved == [][C19_Step]_vars

\* one contract opened for 3 and two opened for 3 were closed by a
\* BUY_CLOSE of two contracts for nothing: 3 + 1.5 is realized and one
\* contract stays open at 1.5
C19_Witness ==
    /\ option.pc = "loop"
    /\ Len(option.trades) = 3
    /\ option.trades[1].type = "SELL_OPEN" /\ option.trades[1].quantity = 1
    /\ option.trades[2].type = "SELL_OPEN" /\ option.trades[2].quantity = 2
    /\ option.trades[1].premium = Scale * 3
    /\ option.trades[2].premium = Scale * 3
    /\ option.trades[3].type = "BUY_CLOSE" /\ option.trades[3].quantity = 2
    /\ 2 * option.trades[3].realizedPL = Scale * 9
    /\ Len(PositionList(option.optionPositions, option.trades[3].symbol)) = 1
    /\ option.optionPositions[option.trades[3].symbol][1].quantity = 1
    /\ 2 * option.optionPositions[option.trades[3].symbol][1].premiumPerContract
        = Scale * 3

\* ---------------------------------------------------------------------
\* C20: OPTION_EXPIRED on a symbol with open positions removes the front
\* position of that symbol's queue and appends one EXPIRED trade.  The
\* premium of a SHORT position (quantity x premiumPerContract) is the
\* trade's realizedPL and is added to totalRealizedGains and to the
\* premiumRetained of the position's strategy; the premium of a LONG
\* position is lost: realizedPL is its negation, added to
\* totalRealizedLosses, and the premium is added to the strategy's losses.
\* Nothing else of the positions and of the strategy aggregates changes.
ExpiredStep ==
    /\ OptionInLoop
    /\ OptionCur.transactionType = "OPTION_EXPIRED"
    /\ Len(CurQueue) > 0

\* the aggregate is as before but for its trades and the named field
AggregateKeptBut(before, after, field) ==
    /\ DOMAIN after = DOMAIN before
    /\ \A f \in DOMAIN before \ {field, "trades"} : after[f] = before[f]

C20_Step ==
    ExpiredStep =>
        LET position == CurQueue[1]
            premium == position.quantity * position.premiumPerContract
            strategy == position.strategy
            before == option.strategyResults[strategy]
            after == option'.strategyResults[strategy]
            trade == Last(option'.trades)
        IN  /\ QueueAfter = Tail(CurQueue)
            /\ OtherQueuesKept
            /\ option'.trades = Append(option.trades, trade)
            /\ trade.type = "EXPIRED"
            /\ trade.symbol = OptionCur.symbol
            /\ trade.strategy = strategy
            /\ trade.quantity = position.quantity
            /\ after.trades = Append(before.trades, trade)
            /\ \A s \in StrategyNames \ {strategy} :
                    option'.strategyResults[s] = option.strategyResults[s]
            /\ IF position.type = "SHORT"
               THEN /\ trade.realizedPL = premium
                    /\ option'.totalRealizedGains
                        = option.totalRealizedGains + premium
                    /\ option'.totalRealizedLosses = option.totalRealizedLosses
                    /\ "premiumRetained" \notin after.nanFields
                    /\ after.premiumRetained = before.premiumRetained + premium
                    /\ AggregateKeptBut(before, after, "premiumRetained")
               ELSE /\ trade.realizedPL = -premium
                    /\ option'.totalRealizedLosses
                        = option.totalRealizedLosses - premium
                    /\ option'.totalRealizedGains = option.totalRealizedGains
                    /\ "losses" \notin after.nanFields
                    /\ after.losses = before.losses + premium
                    /\ AggregateKeptBut(before, after, "losses")

\* calculateGainsLosses has returned for option rows that are a SELL_OPEN
\* and then an EXPIRED of the same symbol
SellOpenThenExpired ==
    /\ option.pc = "done"
    /\ gainsLosses # Null
    /\ Len(option.sorted) = 2
    /\ option.sorted[1].transactionType = "OPTION_SELL_OPEN"
    /\ option.sorted[2].transactionType = "OPTION_EXPIRED"
    /\ option.sorted[2].symbol = option.sorted[1].symbol

\* the strategy of the one position retains the premium, which is its netPL
PremiumIsRetained ==
    LET premium == PremiumOf(option.sorted[1])
        summary == gainsLosses.optionResults.strategySummary
        strategy == gainsLosses.optionResults.trades[1].strategy
    IN  /\ strategy \in ShortStrategies
        /\ summary[strategy].premiumRetained = premium
        /\ summary[strategy].netPL = premium
        /\ \A s \in StrategyNames \ {strategy} : summary[s].netPL = 0

C20_AsStated ==
    SellOpenThenExpired =>
        /\ PremiumIsRetained
        /\ gainsLosses.optionResults.winRate = <<100, 1>>

\* as stated: SELL_OPEN followed by EXPIRED gives winRate 100
C20_ExpiredWinRateAlways100 == []C20_AsStated /\ [][C20_Step]_vars

C20_Amended ==
    SellOpenThenExpired =>
        /\ PremiumIsRetained
        /\ gainsLosses.optionResults.winRate
            = IF PremiumOf(option.sorted[1]) > 0 THEN <<100, 1>> ELSE <<0, 1>>

\* C20: OPTION_EXPIRED removes the front position and books its premium as
\* above, and SELL_OPEN followed by EXPIRED gives premiumRetained = netPL =
\* the premium, with winRate 100 when the premium is positive and 0 when
\* it is zero.
C20_Expired == []C20_Amended /\ [][C20_Step]_vars

\* a call sold for 3 expired: 3 retained, every closing trade a win
C20_Witness ==
    /\ SellOpenThenExpired
    /\ option.sorted[1].quantity = 1
    /\ PremiumOf(option.sorted[1]) = Scale * 3
    /\ gainsLosses.optionResults.strategySummary["coveredCalls"].premiumRetained
        = Scale * 3
    /\ gainsLosses.optionResults.strategySummary["coveredCalls"].netPL
        = Scale * 3
    /\ Len(gainsLosses.optionResults.trades) = 2
    /\ gainsLosses.optionResults.trades[2].type = "EXPIRED"
    /\ gainsLosses.optionResults.trades[2].realizedPL = Scale * 3
    /\ gainsLosses.optionResults.openPositions[option.sorted[1].symbol] = <<>>
    /\ gainsLosses.optionResults.winRate = <<100, 1>>

\* ---------------------------------------------------------------------
\* C21: OPTION_ASSIGNED on a symbol with open positions removes the front
\* position of that symbol's queue, appends one ASSIGNED trade whose
\* realizedPL is the position's premium (quantity x premiumPerContract),
\* and adds that premium to totalRealizedGains and to the premiumRetained
\* of the position's strategy.
AssignedStep ==
    /\ OptionInLoop
    /\ OptionCur.transactionType = "OPTION_ASSIGNED"
    /\ Len(CurQueue) > 0

C21_Step ==
    AssignedStep =>
        LET position == CurQueue[1]
            gain == position.quantity * position.premiumPerContract
            strategy == position.strategy
            before == option.strategyResults[strategy]
            after == option'.strategyResults[strategy]
            trade == Last(option'.trades)
        IN  /\ QueueAfter = Tail(CurQueue)
            /\ OtherQueuesKept
            /\ option'.trades = Append(option.trades, trade)
            /\ trade.type = "ASSIGNED"
            /\ trade.symbol = OptionCur.symbol
            /\ trade.quantity = position.quantity
            /\ trade.realizedPL = gain
            /\ option'.totalRealizedGains = option.totalRealizedGains + gain
            /\ option'.totalRealizedLosses = option.totalRealizedLosses
            /\ "premiumRetained" \in DOMAIN after
            /\ "premiumRetained" \notin after.nanFields
            /\ after.premiumRetained = before.premiumRetained + gain

\* C21: an assignment realizes the front position's premium as a gain of
\* its strategy's premiumRetained.
C21_Assigned == [][C21_Step]_vars

\* the same when the assigned position is SHORT
C21_ShortStep == (AssignedStep /\ CurQueue[1].type = "SHORT") => C21_Step
C21_AssignedShort == [][C21_ShortStep]_vars

\* ---------------------------------------------------------------------
\* C22: in the returned option results, winRate is 100 x (closing trades
\* with realizedPL > 0) / (closing trades), the closing trades being those
\* of type EXPIRED, ASSIGNED, BUY_CLOSE and SELL_CLOSE; it is 0 without a
\* closing trade, 100 when every closing trade has positive realizedPL, and
\* between 0 and 100.  winRate is the fraction <<n, d>>.
ClosingTypes == {"EXPIRED", "ASSIGNED", "BUY_CLOSE", "SELL_CLOSE"}

ClosingIndices(trades) ==
    {i \in 1..Len(trades) : trades[i].type \in ClosingTypes}

WinningIndices(trades) ==
    {i \in ClosingIndices(trades) : trades[i].realizedPL > 0}

C22_Returned ==
    gainsLosses # Null =>
        LET trades == gainsLosses.optionResults.trades
            winRate == gainsLosses.optionResults.winRate
            closing == Cardinality(ClosingIndices(trades))
            winning == Cardinality(WinningIndices(trades))
        IN  /\ winRate[2] > 0
            /\ closing = 0 => winRate = <<0, 1>>
            /\ closing > 0 => winRate[1] * closing = 100 * winning * winRate[2]
            /\ (closing > 0 /\ winning = closing) => winRate = <<100, 1>>
            /\ 0 <= winRate[1] /\ winRate[1] <= 100 * winRate[2]

\* C22: winRate is the percentage of closing trades with positive
\* realizedPL, 0 when there is none, and opening trades never count.
C22_WinRate == C22_Returned

\* two contracts sold for 3, one bought back for nothing and one for 3:
\* four trades, two of them closing, one of these won
C22_Witness ==
    /\ gainsLosses # Null
    /\ option.pc = "done"
    /\ Len(gainsLosses.optionResults.trades) = 3
    /\ gainsLosses.optionResults.trades[1].type = "SELL_OPEN"
    /\ gainsLosses.optionResults.trades[2].type = "BUY_CLOSE"
    /\ gainsLosses.optionResults.trades[3].type = "BUY_CLOSE"
    /\ gainsLosses.optionResults.trades[2].realizedPL > 0
    /\ gainsLosses.optionResults.trades[3].realizedPL < 0
    /\ gainsLosses.optionResults.winRate = <<50, 1>>

\* ---------------------------------------------------------------------
\* C23: in the returned strategySummary, netPL of a short strategy is its
\* premiumRetained - premiumLost and netPL of a long strategy is its gains
\* - losses; and the trade of a close adds its realizedPL, when positive,
\* to premiumRetained (short strategy) or gains (long strategy) of the
\* trade's strategy, and otherwise adds its absolute value to premiumLost
\* (short) or losses (long).
C23_Returned ==
    gainsLosses # Null =>
        \A s \in StrategyNames :
            LET summary == gainsLosses.optionResults.strategySummary[s]
            IN  IF s \in ShortStrategies
                THEN /\ {"premiumRetained", "premiumLost"} \cap summary.nanFields = {}
                     /\ summary.netPL = summary.premiumRetained - summary.premiumLost
                ELSE /\ {"gains", "losses"} \cap summary.nanFields = {}
                     /\ summary.netPL = summary.gains - summary.losses

\* the aggregate has the number x more in the field than it had
AddedTo(before, after, field, x) ==
    /\ field \in DOMAIN after
    /\ field \notin after.nanFields
    /\ after[field] = before[field] + x

C23_Step ==
    EndOfClose =>
        LET trade == Last(option'.trades)
            before == option.strategyResults[trade.strategy]
            after == option'.strategyResults[trade.strategy]
            short == trade.strategy \in ShortStrategies
        IN  IF trade.realizedPL > 0
            THEN AddedTo(before, after,
                         IF short THEN "premiumRetained" ELSE "gains",
                         trade.realizedPL)
            ELSE AddedTo(before, after,
                         IF short THEN "premiumLost" ELSE "losses",
                         -trade.realizedPL)

\* C23: netPL per strategy is premiumRetained - premiumLost (short) or
\* gains - losses (long), and every close is booked in the fields of its
\* strategy's kind.
C23_StrategyNetPL == []C23_Returned /\ [][C23_Step]_vars

\* the booking when the close's kind matches its strategy's: a BUY_CLOSE
\* under a short strategy, a SELL_CLOSE under a long one
C23_MatchedStep ==
    (/\ EndOfClose
     /\ (Last(option'.trades).type = "BUY_CLOSE")
            = (Last(option'.trades).strategy \in ShortStrategies))
        => C23_Step
C23_MatchedCloses == []C23_Returned /\ [][C23_MatchedStep]_vars

\* ---------------------------------------------------------------------
\* C24: whatever the dates of open and close, the option engine's
\* longTermGains and longTermLosses stay 0 and its short-term totals are
\* its realized totals, while it runs and in the results it returns.
ShortTermOnly(r) ==
    /\ r.longTermGains = 0
    /\ r.longTermLosses = 0
    /\ r.shortTermGains = r.totalRealizedGains
    /\ r.shortTermLosses = r.totalRealizedLosses
    /\ r.shortTermGains + r.shortTermLosses
        = r.totalRealizedGains + r.totalRealizedLosses

\* C24: every realized option gain or loss is booked as short-term:
\* longTermGains = longTermLosses = 0 and shortTermGains + shortTermLosses
\* = totalRealizedGains + totalRealizedLosses.
C24_OptionsShortTerm ==
    /\ ShortTermOnly(option)
    /\ gainsLosses # Null => ShortTermOnly(gainsLosses.optionResults)

\* a call bought for 3 expired more than a year later: the loss of 3 is
\* short-term
C24_Witness ==
    /\ gainsLosses # Null
    /\ option.pc = "done"
    /\ Len(gainsLosses.optionResults.trades) = 2
    /\ gainsLosses.optionResults.trades[1].type = "BUY_OPEN"
    /\ gainsLosses.optionResults.trades[2].type = "EXPIRED"
    /\ gainsLosses.optionResults.trades[2].date
        - gainsLosses.optionResults.trades[1].date > LongTermDays * DayTicks
    /\ gainsLosses.optionResults.trades[2].realizedPL = -(Scale * 3)
    /\ gainsLosses.optionResults.shortTermLosses = -(Scale * 3)
    /\ gainsLosses.optionResults.longTermLosses = 0

\* ---------------------------------------------------------------------
\* C25: the returned report holds what the two engines returned, its
\* totalRealizedGains and totalRealizedLosses are the sums of theirs, its
\* netPL is totalRealizedGains + totalRealizedLosses, and allTrades is the
\* stock trades followed by the option trades, each trade as it is there.
C25_Composed ==
    gainsLosses # Null =>
        LET s == gainsLosses.stockResults
            o == gainsLosses.optionResults
        IN  /\ gainsLosses.totalRealizedGains
                = s.totalRealizedGains + o.totalRealizedGains
            /\ gainsLosses.totalRealizedLosses
                = s.totalRealizedLosses + o.totalRealizedLosses
            /\ gainsLosses.netPL
                = gainsLosses.totalRealizedGains + gainsLosses.totalRealizedLosses
            /\ Len(gainsLosses.allTrades) = Len(s.trades) + Len(o.trades)
            /\ \A i \in 1..Len(s.trades) : gainsLosses.allTrades[i] = s.trades[i]
            /\ \A i \in 1..Len(o.trades) :
                    gainsLosses.allTrades[Len(s.trades) + i] = o.trades[i]

\* at the return the two results are the engines' final totals and trades
C25_ReturnStep ==
    (option.pc = "loop" /\ option'.pc = "done") =>
        /\ gainsLosses' # Null
        /\ gainsLosses'.stockResults.totalRealizedGains = stock.totalRealizedGains
        /\ gainsLosses'.stockResults.totalRealizedLosses = stock.totalRealizedLosses
        /\ gainsLosses'.stockResults.trades = stock.trades
        /\ gainsLosses'.optionResults.totalRealizedGains = option.totalRealizedGains
        /\ gainsLosses'.optionResults.totalRealizedLosses = option.totalRealizedLosses
        /\ gainsLosses'.optionResults.trades = option.trades

\* C25: the combined report is the composition of the stock results and
\* the option results: totals added, netPL their sum, allTrades the stock
\* trades followed by the option trades.
C25_PureComposition == []C25_Composed /\ [][C25_ReturnStep]_vars

\* a report with trades and non-zero totals from both engines
C25_Witness ==
    /\ gainsLosses # Null
    /\ option.pc = "done"
    /\ Len(gainsLosses.stockResults.trades) > 0
    /\ Len(gainsLosses.optionResults.trades) > 1
    /\ gainsLosses.stockResults.totalRealizedGains
        + gainsLosses.stockResults.totalRealizedLosses # 0
    /\ gainsLosses.optionResults.totalRealizedGains > 0
    /\ gainsLosses.netPL
        # gainsLosses.stockResults.totalRealizedGains
            + gainsLosses.stockResults.totalRealizedLosses

\* ---------------------------------------------------------------------
\* C29: a BUY appends one lot at the end of its symbol's lots, with the
\* bought quantity, the BUY's date and costPerShare = price + (commission
\* + fees) / quantity, and appends one BUY trade with realizedPL 0 and
\* totalCost = quantity x price + commission + fees = the lot's quantity x
\* costPerShare; the lots that were there, the lots of other symbols and
\* the gain and loss totals are unchanged.
BuyStep == InLoop /\ Cur.transactionType = "BUY"

C29_Step ==
    BuyStep =>
        LET lot == Last(LotsAfter)
            trade == Last(stock'.trades)
            cost == Cur.quantity * Cur.price + Cur.commission + Cur.fees
        IN  /\ LotsAfter = Append(CurLots, lot)
            /\ lot.quantity = Cur.quantity
            /\ lot.date = Cur.date
            /\ lot.costPerShare * Cur.quantity
                = Scale * (Cur.price * Cur.quantity + Cur.commission + Cur.fees)
            /\ stock'.trades = Append(stock.trades, trade)
            /\ trade.type = "BUY"
            /\ trade.symbol = Cur.symbol
            /\ trade.quantity = Cur.quantity
            /\ trade.realizedPL = 0
            /\ trade.totalCost = Scale * cost
            /\ trade.totalCost = lot.quantity * lot.costPerShare
            /\ \A s \in DOMAIN stock.positions :
                s # Cur.symbol =>
                    /\ s \in DOMAIN stock'.positions
                    /\ stock'.positions[s] = stock.positions[s]
            /\ DOMAIN stock'.positions = DOMAIN stock.positions \cup {Cur.symbol}
            /\ stock'.totalRealizedGains = stock.totalRealizedGains
            /\ stock'.totalRealizedLosses = stock.totalRealizedLosses
            /\ stock'.shortTermGains = stock.shortTermGains
            /\ stock'.shortTermLosses = stock.shortTermLosses
            /\ stock'.longTermGains = stock.longTermGains
            /\ stock'.longTermLosses = stock.longTermLosses

\* C29: every BUY appends exactly one lot and one BUY trade and changes
\* nothing else.
C29_BuyFrame == [][C29_Step]_vars

\* two shares bought at 2 with fees 1 after a lot of the same symbol and a
\* lot of the other symbol: the second lot of A costs 2.5 a share
C29_Witness ==
    /\ stock.pc = "loop"
    /\ stock.idx = 4
    /\ Len(stock.trades) = 3
    /\ stock.trades[3].type = "BUY"
    /\ stock.trades[3].symbol = "A"
    /\ stock.trades[3].quantity = 2
    /\ stock.trades[3].totalCost = Scale * 5
    /\ Len(PositionList(stock.positions, "A")) = 2
    /\ Len(PositionList(stock.positions, "B")) = 1
    /\ 2 * stock.positions["A"][2].costPerShare = Scale * 5
    /\ stock.positions["A"][2].quantity = 2
    /\ stock.positions["A"][1].costPerShare # stock.positions["A"][2].costPerShare

\* ---------------------------------------------------------------------
\* C30: in every state of the stock engine outside a SELL in progress,
\* totalRealizedGains + totalRealizedLosses is the sum of realizedPL over
\* its trades; the same holds of the option engine outside a close in
\* progress; and the netPL of a returned report is the sum of realizedPL
\* over allTrades.
RealizedSum(trades) == SumOver(trades, LAMBDA t : t.realizedPL)

C30_Stock ==
    stock.pc # "selling" =>
        stock.totalRealizedGains + stock.totalRealizedLosses
            = RealizedSum(stock.trades)

C30_Option ==
    option.pc # "closing" =>
        option.totalRealizedGains + option.totalRealizedLosses
            = RealizedSum(option.trades)

C30_Report ==
    gainsLosses # Null =>
        /\ gainsLosses.stockResults.totalRealizedGains
            + gainsLosses.stockResults.totalRealizedLosses
            = RealizedSum(gainsLosses.stockResults.trades)
        /\ gainsLosses.optionResults.totalRealizedGains
            + gainsLosses.optionResults.totalRealizedLosses
            = RealizedSum(gainsLosses.optionResults.trades)
        /\ gainsLosses.netPL = RealizedSum(gainsLosses.allTrades)

\* C30: the realized totals of each engine are the sum of realizedPL over
\* its trades, so netPL is the sum of realizedPL over allTrades.
C30_TotalsAreTradeSums == C30_Stock /\ C30_Option /\ C30_Report

\* a report with a stock trade and an option trade of non-zero realizedPL,
\* a gain and a loss among them
C30_Witness ==
    /\ gainsLosses # Null
    /\ option.pc = "done"
    /\ gainsLosses.totalRealizedGains > 0
    /\ gainsLosses.totalRealizedLosses < 0
    /\ \E i \in 1..Len(gainsLosses.stockResults.trades) :
        gainsLosses.stockResults.trades[i].realizedPL # 0
    /\ \E i \in 1..Len(gainsLosses.optionResults.trades) :
        gainsLosses.optionResults.trades[i].realizedPL # 0
    /\ gainsLosses.netPL = RealizedSum(gainsLosses.allTrades)

\* ---------------------------------------------------------------------
\* C26: calculateXIRR returns 0 whenever fewer than two cash flows were
\* built, without running the root-finder: no iteration of newtonXIRR is
\* ever made on fewer than two flows.  That is so for an empty transaction
\* sequence and for a sequence that yields the opening flow only.
C26_FewFlowsReturnZero ==
    /\ (xirr.pc # "idle" /\ Len(xirr.cashFlows) < 2) =>
            /\ xirr.pc = "done"
            /\ xirr.exit = "tooFew"
            /\ xirr.iterations = 0
            /\ xirr.result = FromInt(0)
    /\ (xirr.pc = "newton" \/ xirr.iterations > 0) => Len(xirr.cashFlows) >= 2
    /\ (xirr.pc # "idle" /\ transactions = <<>>) => xirr.exit = "tooFew"

\* transactions that yield the opening flow only
C26_Witness ==
    /\ transactions # <<>>
    /\ xirr.exit = "tooFew"
    /\ Len(xirr.cashFlows) = 1
    /\ xirr.cashFlows[1].date = transactions[1].date
    /\ xirr.cashFlows[1].amount.s = 1
    /\ xirr.result = FromInt(0)

\* ---------------------------------------------------------------------
\* C27: newtonXIRR makes at most maxIterations = 100 iterations.  It stops
\* in the first iteration in which |derivative| < 1e-10, returning the
\* current rate, or in which |newRate - rate| < 0.0001, returning newRate;
\* otherwise the rate becomes newRate, and after the 100th iteration the
\* current rate is returned.
C27_Bounded ==
    /\ xirr.iterations <= MaxIterations
    /\ xirr.exit \in {"derivative", "step"} =>
            xirr.pc = "done" /\ xirr.iterations >= 1
    /\ xirr.exit = "exhausted" =>
            xirr.pc = "done" /\ xirr.iterations = MaxIterations

\* what one step of the solver does with the derivative of the current rate
\* and with newRate = rate - npv / derivative
C27_Body(derivative, newRate) ==
    IF xirr.iterations >= MaxIterations
    THEN /\ xirr'.exit = "exhausted"
         /\ xirr'.returned = xirr.rate
         /\ xirr'.iterations = xirr.iterations
    ELSE /\ xirr'.iterations = xirr.iterations + 1
         /\ IF FLess(FAbs(derivative), DerivativeFloor)
            THEN xirr'.exit = "derivative" /\ xirr'.returned = xirr.rate
            ELSE IF /\ ~IsNaN(newRate)
                    /\ FLess(FAbs(FSub(newRate, xirr.rate)), Tolerance)
            THEN xirr'.exit = "step" /\ xirr'.returned = newRate
            ELSE /\ xirr'.pc = "newton"
                 /\ xirr'.exit = "none"
                 /\ xirr'.rate = newRate

\* a npv or a derivative that is NaN makes newRate NaN
C27_Newton(npv, derivative) ==
    IF IsNaN(npv) \/ IsNaN(derivative) THEN C27_Body(derivative, NaN)
    ELSE C27_Body(derivative, FSub(xirr.rate, FDiv(npv, derivative)))

C27_Step ==
    xirr.pc = "newton" =>
        /\ xirr'.pc \in {"newton", "done"}
        /\ xirr'.cashFlows = xirr.cashFlows
        /\ xirr'.pc = "done" =>
                xirr'.result = FMul(xirr'.returned, FromInt(100))
        /\ C27_Newton(CalculateNPV(xirr.cashFlows, xirr.rate),
                      CalculateDerivative(xirr.cashFlows, xirr.rate))

\* C27: newtonXIRR ends within 100 iterations, leaving at the first small
\* derivative with the current rate, at the first small step with newRate,
\* and with the current rate after the 100th iteration.
C27_NewtonTerminates == []C27_Bounded /\ [][C27_Step]_vars

\* the three ways out of the loop: after 100 iterations,
C27_Witness ==
    /\ xirr.pc = "done"
    /\ xirr.exit = "exhausted"
    /\ xirr.iterations = MaxIterations

\* by a small step in a later iteration,
C27_LateStep == xirr.exit = "step" /\ xirr.iterations > 10

\* and by a small derivative
C27_SmallDerivative == xirr.exit = "derivative" /\ xirr.iterations > 1

\* ---------------------------------------------------------------------
\* the flows -1000 at day 0 and +1100 at day 365
TenPercentFlows == <<Flow(XirrDay, -1000), Flow(XirrYear, 1100)>>

TenPercentSolved ==
    xirr.pc = "done" /\ xirr.exit # "tooFew" /\ xirr.cashFlows = TenPercentFlows

\* Number.EPSILON, the distance from 1 to the next number
Epsilon == Round(0, <<1>>, 1 - MantBits, FALSE)

\* C28 as stated: for the flows -1000 at day 0 and +1100 at day 365 the
\* solver returns, in its first iteration, the rate 0.1 it started from, the
\* first Newton step having size 0.
C28_ReturnsTheGuess ==
    TenPercentSolved =>
        /\ xirr.iterations = 1
        /\ xirr.returned = Guess

\* C28: for the flows -1000 at day 0 and +1100 at day 365 the solver
\* returns in its first iteration, by a step below the tolerance, a rate
\* that is below the guess 0.1 by less than Number.EPSILON and is not the
\* guess: 1100 / 1.1 is 999.9999999999999 in double arithmetic, so that
\* NPV(0.1) is not 0 and the first Newton step is not 0.  The result is
\* that rate times 100, within 100 * Number.EPSILON of 10.
C28_FirstIterationNearGuess ==
    TenPercentSolved =>
        /\ xirr.iterations = 1
        /\ xirr.exit = "step"
        /\ xirr.returned # Guess
        /\ FLess(xirr.returned, Guess)
        /\ FLess(FSub(Guess, xirr.returned), Epsilon)
        /\ xirr.result = FMul(xirr.returned, FromInt(100))
        /\ FLess(xirr.result, FromInt(10))
        /\ FLess(FSub(FromInt(10), xirr.result), FMul(FromInt(100), Epsilon))

\* the solver has returned for these flows
C28_Witness ==
    /\ TenPercentSolved
    /\ xirr.exit = "step"
    /\ \E i \in 1..Len(transactions) : transactions[i].amount = 1100

\* ---------------------------------------------------------------------
\* the shares of a symbol bought by the BUYs processed so far
SharesBought(symbol) == TotalQuantity(ProcessedBuys(symbol))

\* the lot closures of the SELL trades of a symbol that took shares from a
\* lot (the closures of missing history carry a note)
RECURSIVE LotClosures(_, _)
LotClosures(trades, symbol) ==
    IF trades = <<>> THEN <<>>
    ELSE (IF trades[1].type = "SELL" /\ trades[1].symbol = symbol
          THEN SelectSeq(trades[1].lots, LAMBDA l : ~IsOrphanLot(l))
          ELSE <<>>)
            \o LotClosures(Tail(trades), symbol)

\* the closures of the SELL whose while loop is running
RunningClosures(symbol) ==
    IF stock.pc = "selling" /\ Cur.symbol = symbol THEN stock.soldLots
    ELSE <<>>

\* C31: for every symbol the shares bought by the processed BUYs are the
\* shares of the non-orphan lot closures of its SELLs plus the shares left
\* in its open lots, at every point of the run and under every lot
\* strategy: no share is consumed twice and none is lost.
C31_SharesConserved ==
    \A symbol \in Symbols :
        SharesBought(symbol)
            = TotalQuantity(LotClosures(stock.trades, symbol))
                + TotalQuantity(RunningClosures(symbol))
                + TotalQuantity(PositionList(stock.positions, symbol))

\* a finished run in which shares of A were sold from two lots and some
\* are still open
C31_Witness ==
    /\ stock.pc = "done"
    /\ SharesBought("A") >= 3
    /\ Len(LotClosures(stock.trades, "A")) >= 2
    /\ TotalQuantity(PositionList(stock.positions, "A")) >= 1

\* ---------------------------------------------------------------------
\* the four term buckets and the two totals of the stock results
TermBuckets(r) ==
    r.shortTermGains + r.shortTermLosses + r.longTermGains + r.longTermLosses

RealizedTotal(r) == r.totalRealizedGains + r.totalRealizedLosses

\* C32: between transactions and at the return, the four term buckets of
\* the stock results add up to totalRealizedGains + totalRealizedLosses,
\* also after SELLs with a full or partial orphan shortfall.
C32_BucketsAddUp ==
    stock.pc \in {"loop", "done"} =>
        TermBuckets(StockResults(stock)) = RealizedTotal(StockResults(stock))

\* a trade with a shortfall closure next to closures of lots
HasPartialOrphan(t) ==
    /\ t.type = "SELL"
    /\ Len(t.lots) > 1
    /\ IsOrphanLot(Last(t.lots))

\* the buckets add up as long as no SELL partly ran short of lots: the
\* shortfall closure of such a SELL is booked twice
C32_WithoutShortfall ==
    (/\ stock.pc \in {"loop", "done"}
     /\ \A k \in 1..Len(stock.trades) : ~HasPartialOrphan(stock.trades[k]))
        => TermBuckets(StockResults(stock)) = RealizedTotal(StockResults(stock))

\* what a shortfall adds to the difference: the P&L of its closure
C32_ShortfallBookedTwice ==
    stock.pc \in {"loop", "done"} =>
        TermBuckets(StockResults(stock)) - RealizedTotal(StockResults(stock))
            = SumOver(stock.trades, LAMBDA t :
                IF HasPartialOrphan(t) THEN Last(t.lots).realizedPL ELSE 0)

\* ---------------------------------------------------------------------
\* C33: gains are stored as non-negative and losses as non-positive: in
\* the stock results and in the option results totalRealizedGains >= 0 and
\* totalRealizedLosses <= 0 after any sequence of transactions, an orphan
\* SELL whose commission and fees exceed quantity x price included.
C33_GainsAndLossesSigned ==
    /\ stock.totalRealizedGains >= 0
    /\ stock.totalRealizedLosses <= 0
    /\ option.totalRealizedGains >= 0
    /\ option.totalRealizedLosses <= 0

\* a SELL that found no lot at all
IsOrphanTrade(t) ==
    t.type = "SELL" /\ Len(t.lots) = 1 /\ IsOrphanLot(t.lots[1])

\* the signs hold for the stock totals as long as no orphan SELL has a
\* negative P&L, which the orphan branch adds to totalRealizedGains
C33_StockWithoutOrphanLoss ==
    (\A k \in 1..Len(stock.trades) :
        IsOrphanTrade(stock.trades[k]) => stock.trades[k].realizedPL >= 0)
        => stock.totalRealizedGains >= 0 /\ stock.totalRealizedLosses <= 0

\* and they hold for the option totals
C33_OptionTotalsSigned ==
    option.totalRealizedGains >= 0 /\ option.totalRealizedLosses <= 0

\* ---------------------------------------------------------------------
\* the sum of netPL over the strategies of a strategySummary
RECURSIVE NetPLOver(_, _)
NetPLOver(summary, names) ==
    IF names = {} THEN 0
    ELSE LET s == CHOOSE n \in names : TRUE
         IN  summary[s].netPL + NetPLOver(summary, names \ {s})

\* C34: in the returned option results the netPL of the five strategies of
\* strategySummary add up to totalRealizedGains + totalRealizedLosses, also
\* when ASSIGNED or BUY_CLOSE met a LONG position or SELL_CLOSE a SHORT one.
C34_NetPLAddsUp ==
    gainsLosses # Null =>
        LET r == gainsLosses.optionResults
        IN  NetPLOver(r.strategySummary, StrategyNames)
                = r.totalRealizedGains + r.totalRealizedLosses

\* a trade that closed a position of the side its event is meant for: BUY_CLOSE
\* and ASSIGNED a short one, SELL_CLOSE a long one
ClosedItsSide(t) ==
    /\ t.type \in {"BUY_CLOSE", "ASSIGNED"} => t.strategy \in ShortStrategies
    /\ t.type = "SELL_CLOSE" => t.strategy \in LongStrategies

\* the netPL add up whenever every close met a position of its side
C34_MatchedSides ==
    gainsLosses # Null =>
        LET r == gainsLosses.optionResults
        IN  (\A k \in 1..Len(r.trades) : ClosedItsSide(r.trades[k]))
                => NetPLOver(r.strategySummary, StrategyNames)
                    = r.totalRealizedGains + r.totalRealizedLosses

\* ---------------------------------------------------------------------
\* C35: for the short strategies coveredCalls and cashSecuredPuts,
\* premiumRetained never exceeds premiumCollected, after any sequence of
\* option events.
C35_RetainedWithinCollected ==
    \A s \in {"coveredCalls", "cashSecuredPuts"} :
        /\ {"premiumRetained", "premiumCollected"}
                \cap option.strategyResults[s].nanFields = {}
        /\ option.strategyResults[s].premiumRetained
                <= option.strategyResults[s].premiumCollected

\* Where no long position was ever opened, every queue holds short
\* positions of one strategy and what a close retains was collected.
C35_ShortOnly ==
    (\A i \in 1..Len(option.trades) : option.trades[i].type # "BUY_OPEN")
        => C35_RetainedWithinCollected

\* ---------------------------------------------------------------------
\* C36: a BUY_CLOSE, SELL_CLOSE, EXPIRED or ASSIGNED event for an option
\* symbol that has no open position is ignored: no trade is emitted, every
\* total, every strategy aggregate and every queue is left as it was, and
\* the loop goes on with the next transaction.
ClosesNothing ==
    /\ OptionInLoop
    /\ OptionCur.transactionType
            \in CloseTypes \cup {"OPTION_EXPIRED", "OPTION_ASSIGNED"}
    /\ Len(CurQueue) = 0

C36_Step ==
    ClosesNothing =>
        /\ option' = [option EXCEPT !.idx = @ + 1]
        /\ UNCHANGED <<transactions, stock, gainsLosses>>

C36_ClosesOfNothingIgnored == [][C36_Step]_vars

\* A BUY_CLOSE for a symbol nothing was opened on has been passed over and
\* the SELL_OPEN behind it has been processed as the next transaction.
C36_Witness ==
    /\ option.pc = "loop"
    /\ option.idx = 3
    /\ option.sorted[1].transactionType = "OPTION_BUY_CLOSE"
    /\ option.sorted[2].transactionType = "OPTION_SELL_OPEN"
    /\ Len(option.trades) = 1
    /\ option.trades[1].type = "SELL_OPEN"

\* ---------------------------------------------------------------------
\* C37: contracts are conserved.  For every option symbol the quantity
\* recorded on its closing trades plus the quantity still open in its queue
\* equals the quantity of its opening trades, and a close never records
\* more contracts than it removed from the queue.
TradesOfType(symbol, types) ==
    SelectSeq(option.trades, LAMBDA t : t.symbol = symbol /\ t.type \in types)

ContractsOpened(symbol) ==
    TotalQuantity(TradesOfType(symbol, {"SELL_OPEN", "BUY_OPEN"}))
ContractsClosed(symbol) == TotalQuantity(TradesOfType(symbol, ClosingTypes))
ContractsOpen(symbol) ==
    TotalQuantity(PositionList(option.optionPositions, symbol))

TradedOptionSymbols == {option.trades[i].symbol : i \in 1..Len(option.trades)}

C37_ContractsConserved ==
    option.pc \in {"loop", "done"} =>
        \A symbol \in TradedOptionSymbols :
            ContractsClosed(symbol) + ContractsOpen(symbol)
                = ContractsOpened(symbol)

\* what a BUY_CLOSE or SELL_CLOSE removed from the queue, iteration by
\* iteration
ContractsRemoved == SumOver(option.closed, LAMBDA c : c.quantity)

\* Every close that asks for no more contracts than its symbol has open
\* records what it removed, and then the contracts are conserved.
C37_CloseStep ==
    (EndOfClose /\ OptionCur.quantity <= TotalQuantity(option.queueAtClose)) =>
        Last(option'.trades).quantity = ContractsRemoved

C37_CoveredCloses == [][C37_CloseStep]_vars

\* A close for more contracts than were open records the quantity of its
\* row, not what it removed.
C37_ShortfallStep ==
    (EndOfClose /\ OptionCur.quantity > TotalQuantity(option.queueAtClose)) =>
        /\ Last(option'.trades).quantity = OptionCur.quantity
        /\ ContractsRemoved = TotalQuantity(option.queueAtClose)
        /\ ContractsRemoved < Last(option'.trades).quantity

C37_ShortfallRecorded == [][C37_ShortfallStep]_vars

\* ---------------------------------------------------------------------
\* C38: whenever results are displayed, results.gainsLosses was computed
\* with the tax strategy currently selected, after any sequence of file
\* uploads, strategy changes and resets.
C38_ResultsFollowSelection ==
    results # Null =>
        results.gainsLosses
            = CalculateGainsLosses(results.transactions, taxStrategy)

\* What is on display was computed with the selected strategy or, when an
\* upload set it, with FIFO.
C38_SelectedOrDefault ==
    results # Null =>
        results.gainsLosses
            \in {CalculateGainsLosses(results.transactions, taxStrategy),
                 CalculateGainsLosses(results.transactions, "FIFO")}

\* A change of strategy leaves what the claim says.
C38_ChangeStep ==
    (results # Null /\ taxStrategy' # taxStrategy) =>
        /\ results' # Null
        /\ results'.gainsLosses
            = CalculateGainsLosses(results.transactions, taxStrategy')
        /\ results'.transactions = results.transactions

C38_AfterChange == [][C38_ChangeStep]_vars

\* ---------------------------------------------------------------------
\* C39: if a second file is uploaded while the parse of a first one is
\* still in flight, then once both parses have completed the results
\* displayed are those of the file uploaded last, whichever parse finishes
\* first.
BothParsed ==
    /\ Len(parses) = 2
    /\ parses[2].overlaps
    /\ parses[1].state = "resolved"
    /\ parses[2].state = "resolved"

ResultsOf(file) ==
    /\ results.transactions = file.transactions
    /\ results.source = file.source

C39_LastUploadShown ==
    (BothParsed /\ results # Null) => ResultsOf(parses[2].file)

\* The parse that resolves puts its own file on display, whatever was
\* uploaded after it.
C39_ResolveStep ==
    \A i \in 1..Len(parses) :
        (Pending(i) /\ parses'[i].state = "resolved") =>
            /\ results' # Null
            /\ results'.transactions = parses[i].file.transactions
            /\ results'.source = parses[i].file.source

C39_LastToResolveShown == [][C39_ResolveStep]_vars

\* Reachable without a second parse in flight: LIFO is selected, 'Upload
\* New File' is pressed and a file is uploaded; what is then on display was
\* not computed with the selected strategy.
C38_StaleWithoutOverlap ==
    /\ results # Null
    /\ \A i \in 1..Len(parses) : ~parses[i].overlaps
    /\ results.gainsLosses
            # CalculateGainsLosses(results.transactions, taxStrategy)
====
